---- MODULE Spec2Model ----
(***************************************************************************)
(* A model of epos-rs, a client for the Epson ePOS XML-over-HTTP print     *)
(* protocol: the status decoder (status.rs), the mode builders (lib.rs,    *)
(* page.rs), the command types (page.rs, normal.rs, universal.rs) and the  *)
(* dispatcher (soap.rs).                                                   *)
(***************************************************************************)
EXTENDS Integers, Sequences, FiniteSets, TLC

VARIABLES
    status,     \* status.rs: the StatusCode (u32) of a Response being decoded
    decoded,    \* status.rs: the PrinterStatus obtained from it and its text
    flips       \* the number of bits changed in the status word so far

statusVars == <<status, decoded, flips>>

VARIABLES
    command,    \* a command struct or catalog value handed to the serializer
    rendered,   \* what quick_xml::se::to_string made of it
    parsed      \* the catalog variant the deserializer read back from a token

renderVars == <<command, rendered, parsed>>

\* No value handed over, serialized or read back yet.
NoCommand == [kind |-> "none"]

NotRendered == <<"!NotRendered">>

NotParsed == ""

RenderIdle == command = NoCommand /\ rendered = NotRendered /\ parsed = NotParsed

(***************************************************************************)
(* 32-bit words.  TLC's integers stop at 2^31 - 1, so a u32 is held as its *)
(* two 16-bit halves: the value of [hi |-> h, lo |-> l] is h * 65536 + l.  *)
(***************************************************************************)
Half == 2^16

U32(hi, lo) == [hi |-> hi, lo |-> lo]

\* The u32 of a number below 2^31.
ToU32(n) == U32(n \div Half, n % Half)

RECURSIVE BitAnd(_, _)
\* a & b on naturals, bit by bit.
BitAnd(a, b) ==
    IF a = 0 \/ b = 0 THEN 0
    ELSE (a % 2) * (b % 2) + 2 * BitAnd(a \div 2, b \div 2)

MutAnd32LowHalf(value, mask) == U32(0, BitAnd(value.lo, mask.lo))

\* value & mask on u32.
And32(value, mask) == U32(BitAnd(value.hi, mask.hi), BitAnd(value.lo, mask.lo))

Zero32 == U32(0, 0)

RECURSIVE Pow2(_)
Pow2(n) == IF n = 0 THEN 1 ELSE 2 * Pow2(n - 1)

\* The word whose only set bit is bit i (0 = least significant).
Bit32(i) == IF i < 16 THEN U32(0, Pow2(i)) ELSE U32(Pow2(i - 16), 0)

\* value with bit i inverted.
FlipBit(value, i) ==
    LET b == Bit32(i)
        set == And32(value, b) # Zero32
    IN  IF set THEN U32(value.hi - b.hi, value.lo - b.lo)
        ELSE U32(value.hi + b.hi, value.lo + b.lo)

(***************************************************************************)
(* status.rs: impl From<StatusCode> for PrinterStatus.  The masks are the  *)
(* hexadecimal literals of lines 78-96, written as (high half, low half).  *)
(***************************************************************************)
MutFromOfflineMask(value) ==
    [ no_response                       |-> And32(value, U32(0, 1)) # Zero32,
      success                           |-> And32(value, U32(0, 2)) # Zero32,
      drawer_kick_out_connector         |-> And32(value, U32(0, 4)) # Zero32,
      battery_offline_status            |-> And32(value, U32(0, 4)) # Zero32,
      offline                           |-> And32(value, U32(0, 16)) # Zero32,
      cover_open                        |-> And32(value, U32(0, 32)) # Zero32,
      paper_feed_operation              |-> And32(value, U32(0, 64)) # Zero32,
      waiting_online                    |-> And32(value, U32(0, 256)) # Zero32,
      paper_feed_switch_pressed         |-> And32(value, U32(0, 512)) # Zero32,
      mechanical_error                  |-> And32(value, U32(0, 1024)) # Zero32,
      autocutter_error                  |-> And32(value, U32(0, 2048)) # Zero32,
      unrecoverable                     |-> And32(value, U32(0, 8192)) # Zero32,
      recoverable                       |-> And32(value, U32(0, 16384)) # Zero32,
      no_paper_roll_near_end_sensor     |-> And32(value, U32(2, 0)) # Zero32,
      no_paper_in_roll_paper_end_sensor |-> And32(value, U32(8, 0)) # Zero32,
      buzzer_on                         |-> And32(value, U32(256, 0)) # Zero32,
      label_wait_removal                |-> And32(value, U32(256, 0)) # Zero32,
      no_paper_in_peel_sensor           |-> And32(value, U32(16384, 0)) # Zero32,
      spooler_stopped                   |-> And32(value, U32(32768, 0)) # Zero32 ]

MutFromSplitSharedBits(value) ==
    [ no_response                       |-> And32(value, U32(0, 1)) # Zero32,
      success                           |-> And32(value, U32(0, 2)) # Zero32,
      drawer_kick_out_connector         |-> And32(value, U32(0, 4)) # Zero32,
      battery_offline_status            |-> And32(value, U32(0, 16)) # Zero32,
      offline                           |-> And32(value, U32(0, 8)) # Zero32,
      cover_open                        |-> And32(value, U32(0, 32)) # Zero32,
      paper_feed_operation              |-> And32(value, U32(0, 64)) # Zero32,
      waiting_online                    |-> And32(value, U32(0, 256)) # Zero32,
      paper_feed_switch_pressed         |-> And32(value, U32(0, 512)) # Zero32,
      mechanical_error                  |-> And32(value, U32(0, 1024)) # Zero32,
      autocutter_error                  |-> And32(value, U32(0, 2048)) # Zero32,
      unrecoverable                     |-> And32(value, U32(0, 8192)) # Zero32,
      recoverable                       |-> And32(value, U32(0, 16384)) # Zero32,
      no_paper_roll_near_end_sensor     |-> And32(value, U32(2, 0)) # Zero32,
      no_paper_in_roll_paper_end_sensor |-> And32(value, U32(8, 0)) # Zero32,
      buzzer_on                         |-> And32(value, U32(256, 0)) # Zero32,
      label_wait_removal                |-> And32(value, U32(512, 0)) # Zero32,
      no_paper_in_peel_sensor           |-> And32(value, U32(16384, 0)) # Zero32,
      spooler_stopped                   |-> And32(value, U32(32768, 0)) # Zero32 ]

PrinterStatusFrom(value) ==
    [ no_response                       |-> And32(value, U32(0, 1)) # Zero32,
      success                           |-> And32(value, U32(0, 2)) # Zero32,
      drawer_kick_out_connector         |-> And32(value, U32(0, 4)) # Zero32,
      battery_offline_status            |-> And32(value, U32(0, 4)) # Zero32,
      offline                           |-> And32(value, U32(0, 8)) # Zero32,
      cover_open                        |-> And32(value, U32(0, 32)) # Zero32,
      paper_feed_operation              |-> And32(value, U32(0, 64)) # Zero32,
      waiting_online                    |-> And32(value, U32(0, 256)) # Zero32,
      paper_feed_switch_pressed         |-> And32(value, U32(0, 512)) # Zero32,
      mechanical_error                  |-> And32(value, U32(0, 1024)) # Zero32,
      autocutter_error                  |-> And32(value, U32(0, 2048)) # Zero32,
      unrecoverable                     |-> And32(value, U32(0, 8192)) # Zero32,
      recoverable                       |-> And32(value, U32(0, 16384)) # Zero32,
      no_paper_roll_near_end_sensor     |-> And32(value, U32(2, 0)) # Zero32,
      no_paper_in_roll_paper_end_sensor |-> And32(value, U32(8, 0)) # Zero32,
      buzzer_on                         |-> And32(value, U32(256, 0)) # Zero32,
      label_wait_removal                |-> And32(value, U32(256, 0)) # Zero32,
      no_paper_in_peel_sensor           |-> And32(value, U32(16384, 0)) # Zero32,
      spooler_stopped                   |-> And32(value, U32(32768, 0)) # Zero32 ]

\* status.rs: the fields of struct PrinterStatus, in declaration order.
PrinterStatusFields ==
    << "no_response", "success", "drawer_kick_out_connector",
       "battery_offline_status", "offline", "cover_open",
       "paper_feed_operation", "waiting_online", "paper_feed_switch_pressed",
       "mechanical_error", "autocutter_error", "unrecoverable", "recoverable",
       "no_paper_roll_near_end_sensor", "no_paper_in_roll_paper_end_sensor",
       "buzzer_on", "label_wait_removal", "no_paper_in_peel_sensor",
       "spooler_stopped" >>

\* PrinterStatus::default(): every flag false.
PrinterStatusDefault == [f \in {PrinterStatusFields[i] : i \in DOMAIN PrinterStatusFields} |-> FALSE]

MutStatusNamesDedup(ps) ==
    LET IsSet(name) == ps[name] /\ name \notin {"battery_offline_status", "label_wait_removal"}
    IN  SelectSeq(PrinterStatusFields, IsSet)

\* status.rs: Display for PrinterStatus.  serde_json writes the fields in
\* declaration order and skip_serializing_if = Not::not drops the false ones,
\* so the text lists the names of the set flags in declaration order.
StatusNames(ps) ==
    LET IsSet(name) == ps[name]
    IN  SelectSeq(PrinterStatusFields, IsSet)

\* The state of a decoding: nothing decoded yet.
NotDecoded == [done |-> FALSE, flags |-> PrinterStatusDefault, names |-> <<>>]

\* let out: PrinterStatus = status.into(), and out.to_string().
Decode(value) ==
    [done |-> TRUE, flags |-> PrinterStatusFrom(value),
     names |-> StatusNames(PrinterStatusFrom(value))]

(***************************************************************************)
(* Text.  A string is a sequence of atoms: each character that escaping    *)
(* or unescaping looks at (< > & " ' ;) is an atom of its own, and a run   *)
(* of other characters is one atom, so both are computed atom by atom.     *)
(***************************************************************************)
RECURSIVE FlattenRange(_, _, _)
\* The concatenation of ss[lo], ..., ss[hi].
FlattenRange(ss, lo, hi) ==
    IF lo > hi THEN <<>>
    ELSE IF lo = hi THEN ss[lo]
    ELSE LET mid == (lo + hi) \div 2
         IN  FlattenRange(ss, lo, mid) \o FlattenRange(ss, mid + 1, hi)

\* The concatenation of a sequence of strings.
Flatten(ss) == FlattenRange(ss, 1, Len(ss))

\* Vec<String>::join(sep): the strings with sep between consecutive ones.
Join(ss, sep) ==
    IF ss = <<>> THEN <<>>
    ELSE Flatten([i \in 1..(2 * Len(ss) - 1) |->
                    IF i % 2 = 1 THEN ss[(i + 1) \div 2] ELSE sep])

MutEscapeAtomAmpOnly(a, inAttr) ==
    IF a = "&" THEN <<"&", "amp", ";">> ELSE <<a>>

\* quick_xml's serializer escaping of text content and attribute values
\* (QuoteLevel::Partial): & < > always, " inside an attribute value.
EscapeAtom(a, inAttr) ==
    CASE a = "&" -> <<"&", "amp", ";">>
      [] a = "<" -> <<"&", "lt", ";">>
      [] a = ">" -> <<"&", "gt", ";">>
      [] a = "\"" /\ inAttr -> <<"&", "quot", ";">>
      [] OTHER -> <<a>>

Escape(s, inAttr) == Flatten([i \in 1..Len(s) |-> EscapeAtom(s[i], inAttr)])

\* The largest code point, and the surrogates, which are no characters.
MaxCodePoint == 1114111

Surrogates == 55296..57343

\* The position of the character c in the string str, 0 when it is not there.
IndexIn(c, str) ==
    IF \E k \in 1..Len(str) : SubSeq(str, k, k) = c
    THEN CHOOSE k \in 1..Len(str) : SubSeq(str, k, k) = c
    ELSE 0

\* The value of the digit c in the radix, hexadecimal digits in either case;
\* -1 when c is no digit of the radix.
DigitValue(c, radix) ==
    LET lower == IndexIn(c, "0123456789abcdef")
        upper == IndexIn(c, "0123456789ABCDEF")
        v == IF lower > 0 THEN lower - 1 ELSE upper - 1
    IN  IF v >= 0 /\ v < radix THEN v ELSE -1

\* u32::from_str_radix on the digits of a reference: any number of leading
\* zeros, no sign; -1 for a character that is no digit, and a value beyond
\* every code point stays beyond.
RECURSIVE ParseDigits(_, _, _)
ParseDigits(str, radix, acc) ==
    IF Len(str) = 0 THEN acc
    ELSE LET d == DigitValue(Head(str), radix)
         IN  IF d < 0 THEN -1
             ELSE LET next == acc * radix + d
                  IN  ParseDigits(Tail(str), radix,
                          IF next > MaxCodePoint THEN MaxCodePoint + 1 ELSE next)

\* The code point a reference name stands for: # and decimal digits, or #x
\* (lowercase x) and hexadecimal digits; -1 for any other name.
CodePoint(name) ==
    IF Len(name) < 2 \/ Head(name) # "#" THEN -1
    ELSE IF SubSeq(name, 2, 2) = "x"
    THEN IF Len(name) < 3 THEN -1 ELSE ParseDigits(SubSeq(name, 3, Len(name)), 16, 0)
    ELSE ParseDigits(Tail(name), 10, 0)

\* The characters of the code points 32..95, 97..126 and 161..255, in order.
AsciiChars == " !\"#$%&'()*+,-./0123456789:;<=>?@ABCDEFGHIJKLMNOPQRSTUVWXYZ[\\]^_"

LowerChars == "abcdefghijklmnopqrstuvwxyz{|}~"

Latin1Chars == "¡¢£¤¥¦§¨©ª«¬­®¯°±²³´µ¶·¸¹º»¼½¾¿ÀÁÂÃÄÅÆÇÈÉÊËÌÍÎÏÐÑÒÓÔÕÖ×ØÙÚÛÜÝÞßàáâãäåæçèéêëìíîïðñòóôõö÷øùúûüýþÿ"

\* char::from_u32: the character of a code point. A character outside the
\* tables and the three control characters (the grave accent, 96, is one:
\* a string of the model cannot hold it) is written U+ and its code point in
\* decimal.
CharOf(cp) ==
    CASE cp \in 32..95   -> SubSeq(AsciiChars, cp - 31, cp - 31)
      [] cp \in 97..126  -> SubSeq(LowerChars, cp - 96, cp - 96)
      [] cp \in 161..255 -> SubSeq(Latin1Chars, cp - 160, cp - 160)
      [] cp = 9           -> "\t"
      [] cp = 10          -> "\n"
      [] cp = 13          -> "\r"
      [] cp = 8364        -> "€"
      [] OTHER            -> "U+" \o ToString(cp)

\* The character an entity name stands for: the five named entities, and
\* for a numeric character reference the character of its code point, which
\* is neither zero nor a surrogate nor beyond the last code point; <<>> for
\* any other name.
EntityChar(name) ==
    CASE name = "amp"  -> <<"&">>
      [] name = "lt"   -> <<"<">>
      [] name = "gt"   -> <<">">>
      [] name = "quot" -> <<"\"">>
      [] name = "apos" -> <<"'">>
      [] OTHER ->
            LET cp == CodePoint(name)
            IN  IF cp >= 1 /\ cp <= MaxCodePoint /\ cp \notin Surrogates
                THEN <<CharOf(cp)>> ELSE <<>>

\* The failure of unescape; no string holds this atom.
UnescapeError == <<"!EscapeError">>

\* Whether a reference starts at s[i]: & name ; with the name of an entity
\* or of a numeric character reference.
EntityAt(s, i) ==
    /\ i >= 1 /\ i + 2 <= Len(s)
    /\ s[i] = "&" /\ s[i + 2] = ";" /\ EntityChar(s[i + 1]) # <<>>

\* quick_xml::escape::unescape: every &name; and every numeric reference
\* becomes its character; an & that starts no reference is an error.
Unescape(s) ==
    IF \E i \in 1..Len(s) : s[i] = "&" /\ ~EntityAt(s, i) THEN UnescapeError
    ELSE Flatten([i \in 1..Len(s) |->
            IF EntityAt(s, i) THEN EntityChar(s[i + 1])
            ELSE IF EntityAt(s, i - 1) \/ EntityAt(s, i - 2) THEN <<>>
            ELSE <<s[i]>>])

(***************************************************************************)
(* Catalog enumerations: (variant, wire token) in declaration order, the   *)
(* token being the variant's #[serde(rename = ...)].                       *)
(***************************************************************************)
AlignTokens == << <<"Left", "left">>, <<"Center", "center">>, <<"Right", "right">> >>

FeedPosTokens ==
    << <<"Peeling", "peeling">>, <<"Cutting", "cutting">>,
       <<"CurrentTof", "current_tof">>, <<"NextTof", "next_tof">> >>

CutTypeTokens == << <<"NoFeed", "no_feed">>, <<"Feed", "feed">>, <<"Reserve", "reserve">> >>

LangTokens ==
    << <<"De", "de">>, <<"Fr", "fr">>, <<"En", "en">>, <<"It", "it">>, <<"Es", "es">>,
       <<"Ja", "ja">>, <<"JaJp", "ja-jp">>, <<"Ko", "ko">>, <<"KoKr", "ko-kr">>,
       <<"ZhHans", "zh-hans">>, <<"ZhCn", "zh-cn">>, <<"ZhHant", "zh-hant">>,
       <<"ZhTw", "zh-tw">> >>

FontTokens ==
    << <<"FontA", "font_a">>, <<"FontB", "font_b">>, <<"FontC", "font_c">>,
       <<"FontD", "font_d">>, <<"FontE", "font_e">> >>

StyleTokens ==
    << <<"Thin", "thin">>, <<"Medium", "medium">>, <<"Thick", "thick">>,
       <<"ThinDouble", "thin_double">>, <<"MediumDouble", "medium_double">>,
       <<"ThickDouble", "thick_double">> >>

PrintDirectionTokens ==
    << <<"LeftToRight", "left_to_right">>, <<"BottomToTop", "bottom_to_top">>,
       <<"RightToLeft", "right_to_left">>, <<"TopToBottom", "top_to_bottom">> >>

BarcodeTypeTokens ==
    << <<"UpcA", "upc_a">>, <<"UpcE", "upc_e">>, <<"EAN13", "ean13">>,
       <<"JAN13", "jan13">>, <<"EAN8", "EAN8">>, <<"JAN8", "JAN8">>,
       <<"Code39", "code39">>, <<"ITF", "itf">>, <<"CodaBar", "codabar">>,
       <<"Code93", "code93">>, <<"Code128", "code128">>, <<"GS1_128", "gs1_128">>,
       <<"GS1DatabarOmnidirectional", "gs1_databar_omnidirectional">>,
       <<"GS1DatabarTruncated", "gs1_databar_truncated">>,
       <<"GS1DatabarLimited", "gs1_databar_limited">>,
       <<"Gs1DatabarExpanded", "gs1_databar_expanded">> >>

SymbolTypeTokens ==
    << <<"PDF417", "pdf417_standard">>, <<"PDF415Trunc", "pdf417_truncated">>,
       <<"QRCode1", "qrcode_model_1">>, <<"QRCode2", "qrcode_model_2">>,
       <<"MaxiCodeMode2", "maxicode_mode_2">>, <<"MaxiCodeMode3", "maxicode_mode_3">>,
       <<"MaxiCodeMode4", "maxicode_mode_4">>, <<"MaxiCodeMode5", "maxicode_mode_5">>,
       <<"MaxiCodeMode6", "maxicode_mode_6">>,
       <<"GS1DatabarStacked", "gs1_databar_stacked">>,
       <<"GS1DatabarStackedOmnidirectional", "gs1_databar_stacked_omnidirectional">>,
       <<"GS1DatabarExpandedStacked", "gs1_databar_expanded_stacked">>,
       <<"AztecCodeFullRange", "azteccode_fullrange">>,
       <<"AztecCodeCompact", "azteccode_compact">>,
       <<"DatamatrixSquare", "datamatrix_square">>,
       <<"DatamatrixRectangle8", "datamatrix_rectangle_8">>,
       <<"DatamatrixRectangle12", "datamatrix_rectangle_12">>,
       <<"DatamatrixRectangle16", "datamatrix_rectangle_16">> >>

HRITokens ==
    << <<"None", "none">>, <<"Above", "above">>, <<"Below", "below">>, <<"Both", "both">> >>

ErrorCorrectionLevelTokens ==
    << <<"Level0", "level_0">>, <<"Level1", "level_1">>, <<"Level2", "level_2">>,
       <<"Level3", "level_3">>, <<"Level4", "level_4">>, <<"Level5", "level_5">>,
       <<"Level6", "level_6">>, <<"Level7", "level_7">>, <<"Level8", "level_8">>,
       <<"LevelL", "level_l">>, <<"LevelM", "level_m">>, <<"LevelQ", "level_q">>,
       <<"LevelH", "level_h">>, <<"Default", "default">> >>

\* The variants of an enumeration that carry no data.
Variants(table) == {table[i][1] : i \in DOMAIN table}

\* The wire token serde writes for a unit variant.
Token(table, variant) ==
    LET i == CHOOSE j \in DOMAIN table : table[j][1] = variant IN table[i][2]

(***************************************************************************)
(* quick_xml::se::to_string of a command struct: the element named by the  *)
(* struct's rename, its "@" fields as attributes in declaration order (a    *)
(* None under skip_serializing_if writes nothing), its "$text" field as    *)
(* escaped content; an element without content is self-closing.            *)
(***************************************************************************)
None == <<>>

Some(v) == <<v>>

\* What the attribute serializer answers for a value it cannot write: a
\* variant that carries data (Lang::Other, ErrorCorrectionLevel::Int).
SerializeError == <<"!SerializeError">>

Attr(name, value) == <<" ", name, "=", "\"">> \o Escape(value, TRUE) \o <<"\"">>

AttrNum(name, opt) == IF opt = None THEN <<>> ELSE Attr(name, <<ToString(opt[1])>>)

AttrBool(name, opt) ==
    IF opt = None THEN <<>> ELSE Attr(name, <<IF opt[1] THEN "true" ELSE "false">>)

\* An enum-typed attribute; SerializeError for a variant outside the table.
AttrEnum(name, table, opt) ==
    IF opt = None THEN <<>>
    ELSE IF opt[1] \notin Variants(table) THEN SerializeError
    ELSE Attr(name, <<Token(table, opt[1])>>)

\* The element with its children already serialized, or SerializeError when
\* one of its attributes is.
ElementRaw(tag, attrs, children) ==
    IF \E i \in DOMAIN attrs : attrs[i] = SerializeError THEN SerializeError
    ELSE IF children = <<>> THEN <<"<", tag>> \o Flatten(attrs) \o <<"/", ">">>
    ELSE <<"<", tag>> \o Flatten(attrs) \o <<">">> \o children \o <<"<", "/", tag, ">">>

MutElementDropsText(tag, attrs, text) == ElementRaw(tag, attrs, <<>>)

\* The element with a "$text" (or string "$value") content, which is escaped.
Element(tag, attrs, text) == ElementRaw(tag, attrs, Escape(text, FALSE))

\* universal.rs: struct Text.
RenderText(item) ==
    Element("text",
        << AttrEnum("font", FontTokens, item.font),
           AttrBool("smoothing", item.smoothing),
           AttrBool("dw", item.double_width),
           AttrBool("dh", item.double_height),
           AttrNum("width", item.width),
           AttrNum("height", item.height),
           AttrBool("ul", item.underline),
           AttrBool("em", item.emph),
           AttrBool("color", item.color),
           AttrEnum("lang", LangTokens, item.lang),
           AttrEnum("align", AlignTokens, item.align) >>,
        item.text)

\* universal.rs: struct Feed.
RenderFeed(item) ==
    Element("feed",
        << AttrNum("unit", item.unit), AttrNum("line", item.line),
           AttrNum("linespc", item.linespc),
           AttrEnum("pos", FeedPosTokens, item.pos) >>,
        <<>>)

\* universal.rs: struct Barcode.
RenderBarcode(item) ==
    Element("barcode",
        << AttrEnum("type", BarcodeTypeTokens, Some(item.barcode_type)),
           AttrEnum("hri", HRITokens, item.hri),
           AttrEnum("font", FontTokens, item.font),
           AttrNum("width", item.width), AttrNum("height", item.height),
           AttrEnum("align", AlignTokens, item.align),
           AttrBool("rotate", item.rotate) >>,
        item.text)

\* universal.rs: struct Symbol.
RenderSymbol(item) ==
    Element("symbol",
        << AttrEnum("type", SymbolTypeTokens, Some(item.symbol_type)),
           AttrEnum("level", ErrorCorrectionLevelTokens, item.level),
           AttrNum("width", item.width), AttrNum("height", item.height),
           AttrNum("size", item.size),
           AttrEnum("align", AlignTokens, item.align),
           AttrBool("rotate", item.rotate) >>,
        item.text)

\* universal.rs: struct Image.
RenderImage(item) ==
    Element("image",
        << AttrNum("width", Some(item.width)), AttrNum("height", Some(item.height)) >>,
        item.text)

\* page.rs: struct Area.
RenderArea(item) ==
    Element("area",
        << AttrNum("x", Some(item.x)), AttrNum("y", Some(item.y)),
           AttrNum("width", Some(item.width)), AttrNum("height", Some(item.height)) >>,
        <<>>)

MutRenderRectangleYFirst(item) ==
    Element("rectangle",
        << AttrNum("x1", Some(item.x1)), AttrNum("x2", Some(item.x2)),
           AttrNum("y1", Some(item.y1)), AttrNum("y2", Some(item.y2)),
           AttrEnum("style", StyleTokens, item.style) >>,
        <<>>)

\* page.rs: struct Rectangle.
RenderRectangle(item) ==
    Element("rectangle",
        << AttrNum("x1", Some(item.x1)), AttrNum("y1", Some(item.y1)),
           AttrNum("x2", Some(item.x2)), AttrNum("y2", Some(item.y2)),
           AttrEnum("style", StyleTokens, item.style) >>,
        <<>>)

\* printer.rs: PageItem::Line, whose field y2 is renamed "@y1".
RenderLine(item) ==
    Element("line",
        << AttrNum("x1", Some(item.x1)), AttrNum("y1", Some(item.y1)),
           AttrNum("x2", Some(item.x2)), AttrNum("y1", Some(item.y2)),
           AttrEnum("style", StyleTokens, item.style) >>,
        <<>>)

\* normal.rs: struct Cut.
RenderCut(item) ==
    Element("cut", << AttrEnum("type", CutTypeTokens, Some(item.cut_type)) >>, <<>>)

MutRenderHlineEmptyStyle(item) ==
    Element("hline",
        << AttrNum("x1", Some(item.x1)), AttrNum("x2", Some(item.x2)),
           IF item.style = None THEN Attr("style", <<>>)
           ELSE AttrEnum("style", StyleTokens, item.style) >>,
        <<>>)

\* normal.rs: struct Hline.
RenderHline(item) ==
    Element("hline",
        << AttrNum("x1", Some(item.x1)), AttrNum("x2", Some(item.x2)),
           AttrEnum("style", StyleTokens, item.style) >>,
        <<>>)

\* quick_xml::se::to_string(&item) for the command types of the crate.
Render(item) ==
    CASE item.kind = "text"      -> RenderText(item)
      [] item.kind = "feed"      -> RenderFeed(item)
      [] item.kind = "barcode"   -> RenderBarcode(item)
      [] item.kind = "symbol"    -> RenderSymbol(item)
      [] item.kind = "image"     -> RenderImage(item)
      [] item.kind = "area"      -> RenderArea(item)
      [] item.kind = "rectangle" -> RenderRectangle(item)
      [] item.kind = "cut"       -> RenderCut(item)
      [] item.kind = "hline"     -> RenderHline(item)

\* The element name of a rendered fragment.
FragmentKind(fragment) == fragment[2]

(***************************************************************************)
(* The modes and the command types each accepts.  add<I: PageItem> and     *)
(* add<I: NormalItem> take the types that implement the marker trait.      *)
(***************************************************************************)
\* impl PageItem for ...: page.rs (Area, Rectangle), universal.rs (the rest).
PageItemImpls == {"area", "rectangle", "text", "feed", "barcode", "symbol", "image"}

\* impl NormalItem for ...: normal.rs (Cut, Hline), universal.rs (the rest).
NormalItemImpls == {"cut", "hline", "text", "feed", "barcode", "symbol", "image"}

(***************************************************************************)
(* Commands given to add.  Each is a value of one of the command structs;  *)
(* the defaults are the structs' Default (every Option None).              *)
(***************************************************************************)
TextDefault ==
    [ kind |-> "text", text |-> <<>>, font |-> None, smoothing |-> None,
      double_width |-> None, double_height |-> None, width |-> None,
      height |-> None, underline |-> None, emph |-> None, color |-> None,
      lang |-> None, align |-> None ]

FeedDefault == [ kind |-> "feed", unit |-> None, line |-> None, linespc |-> None, pos |-> None ]

BarcodeOf(type, text) ==
    [ kind |-> "barcode", text |-> text, barcode_type |-> type, hri |-> None,
      font |-> None, width |-> None, height |-> None, align |-> None, rotate |-> None ]

SymbolOf(type, text) ==
    [ kind |-> "symbol", text |-> text, symbol_type |-> type, level |-> None,
      width |-> None, height |-> None, size |-> None, align |-> None, rotate |-> None ]

\* A text with attributes whose payload holds markup characters and a
\* {-escape.
TextMarkup ==
    [ TextDefault EXCEPT !.text = <<"I HATE ", "<", "XML", ">", " ", "&", " {1", "\n">>,
      !.double_height = Some(TRUE), !.double_width = Some(FALSE),
      !.align = Some("Center") ]

\* A text in a language outside the named variants: Lang::Other("tlh").
TextOtherLang == [ TextDefault EXCEPT !.text = <<"nuqneH">>, !.lang = Some("Other(tlh)") ]

FeedLines == [ FeedDefault EXCEPT !.line = Some(5) ]

BarcodeCode128 == BarcodeOf("Code128", <<"{A", "1234">>)

SymbolMaxi == SymbolOf("MaxiCodeMode4", <<"HELP ME">>)

ImageSmall == [ kind |-> "image", text |-> <<"AAEC">>, width |-> 8, height |-> 4 ]

CutFeed == [ kind |-> "cut", cut_type |-> "Feed" ]

HlineDouble == [ kind |-> "hline", x1 |-> 100, x2 |-> 200, style |-> Some("ThinDouble") ]

AreaFull == [ kind |-> "area", x |-> 0, y |-> 0, width |-> 500, height |-> 500 ]

RectangleBox == [ kind |-> "rectangle", x1 |-> 0, y1 |-> 0, x2 |-> 200, y2 |-> 100, style |-> None ]

\* printer.rs: variants of enum PageItem that no module of the crate declares.
LineItem == [ kind |-> "line", x1 |-> 0, y1 |-> 1, x2 |-> 2, y2 |-> 3, style |-> None ]

DirectionItem == [ kind |-> "direction", dir |-> "LeftToRight" ]

PositionItem == [ kind |-> "position", x |-> 10, y |-> 20 ]

Items ==
    { TextMarkup, TextOtherLang, FeedLines, BarcodeCode128, SymbolMaxi,
      ImageSmall, CutFeed, HlineDouble, AreaFull, RectangleBox,
      LineItem, DirectionItem, PositionItem }

(***************************************************************************)
(* soap.rs: the envelope and the request.                                  *)
(***************************************************************************)
ENDPOINT == "/cgi-bin/epos/service.cgi"

SoapNs == "http://schemas.xmlsoap.org/soap/envelope/"

EposNs == "http://www.epson-pos.com/schemas/2011/03/epos-print"

\* Url::join with an absolute path: the origin stays, the path is replaced.
UrlJoin(base, path) == [origin |-> base.origin, path |-> path]

\* enum EnumBody.
NoPage(body) == [variant |-> "NoPage", body |-> body]

Page(body) == [variant |-> "Page", body |-> body]

\* to_string of an EnumBody under EposPrint's "$value": both variants are
\* renamed epos-print; Page holds a PageWrapper under the name page.
SerializeEnumBody(b) ==
    IF b.variant = "Page"
    THEN ElementRaw("epos-print", <<>>, Element("page", <<>>, b.body))
    ELSE Element("epos-print", <<>>, b.body)

\* to_string of SoapWrapper{ns, body: Some(EposPrint{ns, body})}.
SerializeEnvelope(b) ==
    ElementRaw("s:Envelope", << Attr("xmlns:s", <<SoapNs>>) >>,
        ElementRaw("s:Body", << Attr("xmlns", <<EposNs>>) >>, SerializeEnumBody(b)))

MutSendParamsDefaultTimeout(devid, timeout) ==
    << <<"devid", devid>>, <<"timeout", ToString(10000)>> >>

\* send: let params = [("devid", devid), ("timeout", &timeout.to_string())].
SendParams(devid, timeout) == << <<"devid", devid>>, <<"timeout", ToString(timeout)>> >>

\* send: the two headers inserted into the HeaderMap.
SendHeaders ==
    << <<"content-type", "text/xml; charset=utf-8">>,
       <<"if-modified-since", "Thu, 01 Jan 1970 00:00:00 GMT">> >>

MutBuildRequestUnescapesTwice(body, devid, timeout, endpoint) ==
    LET output == SerializeEnvelope(body)
        fixed  == Unescape(Unescape(output))
    IN  [ panic   |-> fixed = UnescapeError,
          method  |-> "POST",
          url     |-> endpoint,
          query   |-> SendParams(devid, timeout),
          headers |-> SendHeaders,
          body    |-> fixed ]

\* send, up to the request it builds: the envelope is serialized, unescaped
\* once, and becomes the body of a POST to the endpoint.  The request is
\* "panic" when unescape fails (the code unwraps its result).
BuildRequest(body, devid, timeout, endpoint) ==
    LET output == SerializeEnvelope(body)
        fixed  == Unescape(output)
    IN  [ panic   |-> fixed = UnescapeError,
          method  |-> "POST",
          url     |-> endpoint,
          query   |-> SendParams(devid, timeout),
          headers |-> SendHeaders,
          body    |-> fixed ]

\* What the transport hands back to send: a failure of the exchange, a body
\* that is no reply envelope, or a reply envelope holding a Response.
NoResponse == [ns |-> "", success |-> FALSE, code |-> "", status |-> Zero32, battery |-> 0]

TransportFailure == [kind |-> "transport_failure", response |-> NoResponse]

GarbageBody == [kind |-> "unparseable", response |-> NoResponse]

Reply(response) == [kind |-> "reply", response |-> response]

Responses ==
    { [ns |-> EposNs, success |-> TRUE, code |-> "", status |-> ToU32(251658262), battery |-> 0],
      [ns |-> EposNs, success |-> FALSE, code |-> "EPTR_COVER_OPEN", status |-> U32(32768, 40), battery |-> 12337] }

Replies == {TransportFailure, GarbageBody} \cup {Reply(r) : r \in Responses}

\* Return values.
Ok == [tag |-> "Ok", error |-> "", status |-> NoResponse]

Err(error) == [tag |-> "Err", error |-> error, status |-> NoResponse]

ResponseError(response) == [tag |-> "Err", error |-> "ResponseError", status |-> response]

MutSendResultDropsResponse(reply) ==
    CASE reply.kind = "transport_failure" -> Err("NetworkError")
      [] reply.kind = "unparseable"       -> Err("SerializeError")
      [] ~reply.response.success          -> ResponseError(NoResponse)
      [] OTHER                            -> Ok

MutSendResultSwallowsTransport(reply) ==
    CASE reply.kind = "transport_failure" -> Ok
      [] reply.kind = "unparseable"       -> Err("SerializeError")
      [] ~reply.response.success          -> ResponseError(reply.response)
      [] OTHER                            -> Ok

\* send, from the reply on: builder.send().await?.text().await? raises the
\* transport's error, from_str(&resp)? the parser's, a reply without success
\* is ResponseError{status: response}, and anything else is Ok(()).
SendResult(reply) ==
    CASE reply.kind = "transport_failure" -> Err("NetworkError")
      [] reply.kind = "unparseable"       -> Err("SerializeError")
      [] ~reply.response.success          -> ResponseError(reply.response)
      [] OTHER                            -> Ok

(***************************************************************************)
(* lib.rs, page.rs: the connection and the builders.                       *)
(***************************************************************************)
MaxBuild == 2   \* commands appended to one builder

MaxPosts == 2   \* requests sent in one behaviour

\* The builders a behaviour may hold.
AllSlots == {"a", "b"}

VARIABLES
    args,       \* the (timeout, dev_id, endpoint) the caller creates connections with
    conn,       \* lib.rs: the Builder made from them by new
    builders,   \* per slot: a NormalBuilder, PageBuilder or page::PageBuilder, or NoBuilder
    calls,      \* per slot: the print call in progress, if any, and how many were made
    requests,   \* the POSTs the transport was asked to perform, in order
    last        \* per slot: the latest add or print, its return value and the reply it read

buildVars == <<args, conn, builders, calls, requests, last>>

vars ==
    <<status, decoded, flips, command, rendered, parsed,
      args, conn, builders, calls, requests, last>>

\* The arguments of new that the model draws from.
Connections ==
    { [timeout |-> 10000, dev_id |-> "local_printer",
       endpoint |-> [origin |-> "http://192.168.1.194", path |-> "/"]],
      [timeout |-> 1000, dev_id |-> "printer_2",
       endpoint |-> [origin |-> "http://printer.example", path |-> "/kitchen/"]] }

\* lib.rs: pub fn new.
New(timeout, dev_id, endpoint) ==
    [timeout |-> timeout, dev_id |-> dev_id, endpoint |-> UrlJoin(endpoint, ENDPOINT)]

NoBuilder ==
    [type |-> "none", build |-> <<>>, timeout |-> 0, dev_id |-> "",
     endpoint |-> [origin |-> "", path |-> ""]]

\* lib.rs: Builder::page.
BuilderPage(b) ==
    [type |-> "PageBuilder", build |-> <<>>, timeout |-> b.timeout,
     dev_id |-> b.dev_id, endpoint |-> b.endpoint]

\* lib.rs: Builder::normal.
BuilderNormal(b) ==
    [type |-> "NormalBuilder", build |-> <<>>, timeout |-> b.timeout,
     dev_id |-> b.dev_id, endpoint |-> b.endpoint]

MutPageNewBareEndpoint(timeout, dev_id, endpoint) ==
    [type |-> "page::PageBuilder", build |-> <<>>, timeout |-> timeout,
     dev_id |-> dev_id, endpoint |-> endpoint]

\* page.rs: pub fn new.
PageNew(timeout, dev_id, endpoint) ==
    [type |-> "page::PageBuilder", build |-> <<>>, timeout |-> timeout,
     dev_id |-> dev_id, endpoint |-> UrlJoin(endpoint, ENDPOINT)]

\* The mode of a builder type.
ModeOf(type) == IF type = "NormalBuilder" THEN "Normal" ELSE "Page"

MutAcceptsAnyItem(type, kind) == kind \in PageItemImpls \cup NormalItemImpls

\* The bound on add's type parameter: I: NormalItem in NormalBuilder, I: PageItem
\* in both PageBuilders.
Accepts(type, kind) ==
    IF type = "NormalBuilder" THEN kind \in NormalItemImpls ELSE kind \in PageItemImpls

MutFinalBodyNoPage(b) == NoPage(Join(b.build, <<"\n">>))

\* print: the EnumBody made from the buffer.
FinalBody(b) ==
    IF b.type = "NormalBuilder" THEN NoPage(Join(b.build, <<"\n">>))
    ELSE Page(Join(b.build, <<"\n">>))

Idle(n) == [pc |-> "idle", n |-> n]

NoReply == [kind |-> "none", response |-> NoResponse]

Nothing == [op |-> "none", kind |-> "", value |-> Ok, reply |-> NoReply]

\* The answer to a call that the compiler refuses: the item's type does not
\* implement the trait add is bounded by, so there is no call and no value.
NotCompiled == [tag |-> "NotCompiled", error |-> "", status |-> NoResponse]

Init ==
    /\ status = Zero32
    /\ decoded = NotDecoded
    /\ flips = 0
    /\ RenderIdle
    /\ args \in Connections
    /\ conn = New(args.timeout, args.dev_id, args.endpoint)
    /\ builders = [s \in AllSlots |-> NoBuilder]
    /\ calls = [s \in AllSlots |-> Idle(0)]
    /\ requests = <<>>
    /\ last = [s \in AllSlots |-> Nothing]

(***************************************************************************)
(* The operations of a builder.                                            *)
(***************************************************************************)
\* Builder::page, Builder::normal and page::new.
Create(s, b) ==
    /\ builders[s].type = "none"
    /\ builders' = [builders EXCEPT ![s] = b]
    /\ UNCHANGED <<statusVars, renderVars, args, conn, calls, requests, last>>

CreatePage(s) == Create(s, BuilderPage(conn))

CreateNormal(s) == Create(s, BuilderNormal(conn))

CreatePageNew(s) == Create(s, PageNew(args.timeout, args.dev_id, args.endpoint))

MutPushFront(build, output) == <<output>> \o build

\* add: self.build.push(output).
Push(build, output) == Append(build, output)

MutAddKeepsPartial(s, item) ==
    /\ builders[s].type # "none"
    /\ calls[s].pc = "idle"
    /\ Accepts(builders[s].type, item.kind)
    /\ Len(builders[s].build) < MaxBuild
    /\ LET output == Render(item)
       IN  IF output = SerializeError
           THEN /\ last' = [last EXCEPT ![s] =
                        [op |-> "add", kind |-> item.kind, value |-> Err("DeError"),
                         reply |-> NoReply]]
                /\ builders' = [builders EXCEPT ![s].build = Push(@, <<>>)]
           ELSE /\ builders' = [builders EXCEPT ![s].build = Push(@, output)]
                /\ last' = [last EXCEPT ![s] =
                        [op |-> "add", kind |-> item.kind, value |-> Ok, reply |-> NoReply]]
    /\ UNCHANGED <<statusVars, renderVars, args, conn, calls, requests>>

MutAddToAll(s, item) ==
    /\ builders[s].type # "none"
    /\ calls[s].pc = "idle"
    /\ Accepts(builders[s].type, item.kind)
    /\ Len(builders[s].build) < MaxBuild
    /\ Render(item) # SerializeError
    /\ builders' = [t \in AllSlots |->
            IF builders[t].type = "none" \/ Len(builders[t].build) >= MaxBuild
            THEN builders[t]
            ELSE [builders[t] EXCEPT !.build = Push(@, Render(item))]]
    /\ last' = [last EXCEPT ![s] =
            [op |-> "add", kind |-> item.kind, value |-> Ok, reply |-> NoReply]]
    /\ UNCHANGED <<statusVars, renderVars, args, conn, calls, requests>>

\* NormalBuilder::add, PageBuilder::add, page::PageBuilder::add, for an item
\* whose type the builder accepts.
Add(s, item) ==
    /\ builders[s].type # "none"
    /\ calls[s].pc = "idle"
    /\ Accepts(builders[s].type, item.kind)
    /\ Len(builders[s].build) < MaxBuild
    /\ LET output == Render(item)
       IN  IF output = SerializeError
           THEN /\ last' = [last EXCEPT ![s] =
                        [op |-> "add", kind |-> item.kind, value |-> Err("DeError"),
                         reply |-> NoReply]]
                /\ UNCHANGED builders
           ELSE /\ builders' = [builders EXCEPT ![s].build = Push(@, output)]
                /\ last' = [last EXCEPT ![s] =
                        [op |-> "add", kind |-> item.kind, value |-> Ok, reply |-> NoReply]]
    /\ UNCHANGED <<statusVars, renderVars, args, conn, calls, requests>>

\* add with an item whose type does not implement the builder's trait: the
\* call does not compile, nothing runs and the builder is as before.
AddRefused(s, item) ==
    /\ builders[s].type # "none"
    /\ calls[s].pc = "idle"
    /\ ~Accepts(builders[s].type, item.kind)
    /\ last' = [last EXCEPT ![s] =
            [op |-> "add", kind |-> "", value |-> NotCompiled, reply |-> NoReply]]
    /\ UNCHANGED <<statusVars, renderVars, args, conn, builders, calls, requests>>

MutPostedTwice(log, entry) == Append(Append(log, entry), entry)

\* send: builder.send() hands the request to the transport, once.
Posted(log, entry) == Append(log, entry)

MutPrintCallReentrant(s) ==
    /\ builders[s].type # "none"
    /\ Len(requests) < MaxPosts
    /\ LET b   == builders[s]
           req == BuildRequest(FinalBody(b), b.dev_id, b.timeout, b.endpoint)
       IN  /\ ~req.panic
           /\ requests' = Posted(requests,
                    [slot |-> s, call |-> calls[s].n + 1, request |-> req,
                     doc |-> b.build])
           /\ calls' = [calls EXCEPT ![s] = [pc |-> "awaiting", n |-> @.n + 1]]
    /\ UNCHANGED <<statusVars, renderVars, args, conn, builders, last>>

\* print, up to the first of its two suspension points: final_body is made
\* from the buffer, send builds the request from it (a failed unescape
\* panics) and issues the POST, and the call awaits builder.send().
PrintCall(s) ==
    /\ builders[s].type # "none"
    /\ calls[s].pc = "idle"
    /\ Len(requests) < MaxPosts
    /\ LET b   == builders[s]
           req == BuildRequest(FinalBody(b), b.dev_id, b.timeout, b.endpoint)
       IN  IF req.panic
           THEN /\ last' = [last EXCEPT ![s] =
                        [op |-> "print", kind |-> "", value |-> Err("panic"),
                         reply |-> NoReply]]
                /\ calls' = [calls EXCEPT ![s].n = @ + 1]
                /\ UNCHANGED requests
           ELSE /\ requests' = Posted(requests,
                        [slot |-> s, call |-> calls[s].n + 1, request |-> req,
                         doc |-> b.build])
                /\ calls' = [calls EXCEPT ![s] = [pc |-> "awaiting", n |-> @.n + 1]]
                /\ UNCHANGED last
    /\ UNCHANGED <<statusVars, renderVars, args, conn, builders>>

\* send, between its two suspension points: builder.send().await has given
\* the response, and the call awaits its body, .text().
PrintResponse(s) ==
    /\ calls[s].pc = "awaiting"
    /\ calls' = [calls EXCEPT ![s].pc = "reading"]
    /\ UNCHANGED <<statusVars, renderVars, args, conn, builders, requests, last>>

MutPrintReturnClearsBuffer(s, reply) ==
    /\ calls[s].pc \in {"awaiting", "reading"}
    /\ calls[s].pc = "awaiting" => reply = TransportFailure
    /\ last' = [last EXCEPT ![s] =
            [op |-> "print", kind |-> "", value |-> SendResult(reply), reply |-> reply]]
    /\ calls' = [calls EXCEPT ![s] = Idle(@.n)]
    /\ builders' = [builders EXCEPT ![s].build = <<>>]
    /\ UNCHANGED <<statusVars, renderVars, args, conn, requests>>

\* send, from an await on, and print's return: builder.send() fails, or the
\* response is there and .text() fails or gives the body, which is parsed.
PrintReturn(s, reply) ==
    /\ calls[s].pc \in {"awaiting", "reading"}
    /\ calls[s].pc = "awaiting" => reply = TransportFailure
    /\ last' = [last EXCEPT ![s] =
            [op |-> "print", kind |-> "", value |-> SendResult(reply), reply |-> reply]]
    /\ calls' = [calls EXCEPT ![s] = Idle(@.n)]
    /\ UNCHANGED <<statusVars, renderVars, args, conn, builders, requests>>

\* The answer of a print whose future was dropped: there is none.
Dropped == [tag |-> "Dropped", error |-> "", status |-> NoResponse]

\* The future of print is dropped at one of its suspension points: the POST
\* was issued, no reply is read, nothing is returned and the borrow of the
\* builder ends.
PrintDrop(s) ==
    /\ calls[s].pc \in {"awaiting", "reading"}
    /\ last' = [last EXCEPT ![s] =
            [op |-> "drop", kind |-> "", value |-> Dropped, reply |-> NoReply]]
    /\ calls' = [calls EXCEPT ![s] = Idle(@.n)]
    /\ UNCHANGED <<statusVars, renderVars, args, conn, builders, requests>>

\* <PageBuilder as Clone>::clone (#[derive(Clone)]): a second PageBuilder
\* with copies of the buffer and of the three fields. NormalBuilder and
\* page::PageBuilder do not derive Clone.
ClonePage(s, t) ==
    /\ s # t
    /\ builders[s].type = "PageBuilder"
    /\ calls[s].pc = "idle"
    /\ builders[t].type = "none"
    /\ builders' = [builders EXCEPT ![t] = builders[s]]
    /\ UNCHANGED <<statusVars, renderVars, args, conn, calls, requests, last>>

\* One builder of the crate's API, in either mode.
Next ==
    \/ CreatePage("a")
    \/ CreateNormal("a")
    \/ \E item \in Items : Add("a", item)
    \/ \E item \in Items : AddRefused("a", item)
    \/ PrintCall("a")
    \/ PrintResponse("a")
    \/ \E reply \in Replies : PrintReturn("a", reply)
    \/ PrintDrop("a")

Spec == Init /\ [][Next]_vars

(***************************************************************************)
(* Documents and their wire bodies: one builder, given the commands whose  *)
(* rendering differs in what the envelope does to it (markup characters     *)
(* and {-escapes in a payload, attributes, a command the serializer        *)
(* refuses, commands of one mode only).                                    *)
(***************************************************************************)
WireItems ==
    { TextMarkup, TextOtherLang, BarcodeCode128, CutFeed, HlineDouble,
      AreaFull, RectangleBox }

NextWire ==
    \/ CreatePage("a")
    \/ CreateNormal("a")
    \/ \E item \in WireItems : Add("a", item)
    \/ \E item \in WireItems : AddRefused("a", item)
    \/ PrintCall("a")
    \/ PrintResponse("a")
    \/ \E reply \in Replies : PrintReturn("a", reply)
    \/ PrintDrop("a")

SpecWire == Init /\ [][NextWire]_vars

(***************************************************************************)
(* Documents given commands whose numbers are at and beyond the ends of    *)
(* the documented ranges (text width and height 1..8, barcode width 2..6). *)
(***************************************************************************)
\* universal.rs test_text: a Text of width 20 and height 20.
TextWide ==
    [ TextDefault EXCEPT !.text = <<"some_text">>, !.font = Some("FontA"),
      !.width = Some(20), !.height = Some(20) ]

TextNarrow == [ TextDefault EXCEPT !.text = <<"x">>, !.width = Some(1), !.height = Some(8) ]

BarcodeWide == [ BarcodeOf("Code39", <<"1234">>) EXCEPT !.width = Some(7) ]

BarcodeThin == [ BarcodeOf("Code39", <<"1234">>) EXCEPT !.width = Some(2) ]

RangeItems == { TextWide, TextNarrow, BarcodeWide, BarcodeThin, CutFeed }

NextRange ==
    \/ CreatePage("a")
    \/ CreateNormal("a")
    \/ \E item \in RangeItems : Add("a", item)
    \/ \E item \in RangeItems : AddRefused("a", item)
    \/ PrintCall("a")
    \/ PrintResponse("a")
    \/ \E reply \in Replies : PrintReturn("a", reply)
    \/ PrintDrop("a")

SpecRange == Init /\ [][NextRange]_vars

(***************************************************************************)
(* Two builders side by side: each of Builder::page, Builder::normal and   *)
(* page::new makes a builder that owns its buffer and its copies of the    *)
(* connection's fields, and the calls on the two interleave freely.        *)
(***************************************************************************)
\* The command the callers append, which every builder takes, and the one
\* they try on the page builders, which take no Cut.
PairItems == { TextNarrow }

PairRefused == { CutFeed }

PairReplies == { TransportFailure, Reply(CHOOSE r \in Responses : r.success) }

NextPair ==
    \/ CreatePage("a")
    \/ CreateNormal("a")
    \/ CreateNormal("b")
    \/ CreatePageNew("b")
    \/ ClonePage("a", "b")
    \/ \E s \in AllSlots :
        \/ \E item \in PairItems : Add(s, item)
        \/ \E item \in PairRefused : AddRefused(s, item)
        \/ PrintCall(s)
        \/ PrintResponse(s)
        \/ \E reply \in PairReplies : PrintReturn(s, reply)
        \/ PrintDrop(s)

SpecPair == Init /\ [][NextPair]_vars

(***************************************************************************)
(* The status decoder on its own: a status word arrives, differing from    *)
(* the ones seen before in up to MaxFlips bits, and is decoded.            *)
(***************************************************************************)
MaxFlips == 2

\* The words the decoder starts from: nothing set, the word of the tests
\* (251658262 = 0x0F000016), 0x0F020004 and every bit set.
StatusWords == {Zero32, ToU32(251658262), U32(3842, 4), U32(65535, 65535)}

InitStatus ==
    /\ status \in StatusWords
    /\ decoded = NotDecoded
    /\ flips = 0
    /\ RenderIdle
    /\ args = CHOOSE c \in Connections : c.timeout = 10000
    /\ conn = New(args.timeout, args.dev_id, args.endpoint)
    /\ builders = [s \in AllSlots |-> NoBuilder]
    /\ calls = [s \in AllSlots |-> Idle(0)]
    /\ requests = <<>>
    /\ last = [s \in AllSlots |-> Nothing]

\* A Response arrives whose status differs from the last in bit i.
Receive(i) ==
    /\ flips < MaxFlips
    /\ status' = FlipBit(status, i)
    /\ decoded' = NotDecoded
    /\ flips' = flips + 1
    /\ UNCHANGED <<renderVars, buildVars>>

\* status.into() and its Display.
Into ==
    /\ ~decoded.done
    /\ decoded' = Decode(status)
    /\ UNCHANGED <<status, flips, renderVars, buildVars>>

NextStatus == (\E i \in 0..31 : Receive(i)) \/ Into

SpecStatus == InitStatus /\ [][NextStatus]_vars

(***************************************************************************)
(* The serializer on its own: a command struct or a catalog value is       *)
(* handed to quick_xml's serializer, and the token written for a catalog   *)
(* value is read back by the deserializer that serde derives for the enum. *)
(***************************************************************************)
\* The catalog enumerations of formatters.rs and barcodes.rs that commands
\* use, and the table of each one's unit variants.
CatalogNames ==
    { "BarcodeType", "SymbolType", "HRI", "ErrorCorrectionLevel", "Align",
      "FeedPos", "CutType", "Lang", "Font", "Style", "PrintDirection" }

TableOf(enum) ==
    CASE enum = "BarcodeType"          -> BarcodeTypeTokens
      [] enum = "SymbolType"           -> SymbolTypeTokens
      [] enum = "HRI"                  -> HRITokens
      [] enum = "ErrorCorrectionLevel" -> ErrorCorrectionLevelTokens
      [] enum = "Align"                -> AlignTokens
      [] enum = "FeedPos"              -> FeedPosTokens
      [] enum = "CutType"              -> CutTypeTokens
      [] enum = "Lang"                 -> LangTokens
      [] enum = "Font"                 -> FontTokens
      [] enum = "Style"                -> StyleTokens
      [] enum = "PrintDirection"       -> PrintDirectionTokens

\* Values of the variants that carry data: Lang::Other(String) and
\* ErrorCorrectionLevel::Int(u32).
DataVariants(enum) ==
    CASE enum = "Lang"                 -> {"Other(tlh)"}
      [] enum = "ErrorCorrectionLevel" -> {"Int(50)"}
      [] OTHER                         -> {}

\* A catalog value as the serializer writes it where the commands use it, as
\* an attribute value: the rename of a unit variant; a variant that carries
\* data is refused.
SerializeValue(table, variant) ==
    IF variant \in Variants(table) THEN <<Token(table, variant)>> ELSE SerializeError

\* What the derived deserializer answers for a token no variant is renamed to.
UnknownVariant == "!UnknownVariant"

\* #[derive(Deserialize)] on a catalog enum: the variant renamed to the token.
FromToken(table, token) ==
    IF \E j \in DOMAIN table : table[j][2] = token
    THEN table[CHOOSE j \in DOMAIN table :
                  /\ table[j][2] = token
                  /\ \A k \in DOMAIN table : table[k][2] = token => j <= k][1]
    ELSE UnknownVariant

\* u16 coordinates the serializer is given.
Coords == {0, 1, 2, 3, 65535}

StyleOptions == {None} \cup {Some(v) : v \in Variants(StyleTokens)}

RectangleCommands ==
    { [kind |-> "rectangle", x1 |-> x1, y1 |-> y1, x2 |-> x2, y2 |-> y2, style |-> st] :
        x1 \in Coords, y1 \in Coords, x2 \in Coords, y2 \in Coords, st \in StyleOptions }

LineCommands ==
    { [kind |-> "line", x1 |-> x1, y1 |-> y1, x2 |-> x2, y2 |-> y2, style |-> st] :
        x1 \in Coords, y1 \in Coords, x2 \in Coords, y2 \in Coords, st \in StyleOptions }

HlineCommands ==
    { [kind |-> "hline", x1 |-> x1, x2 |-> x2, style |-> st] :
        x1 \in Coords, x2 \in Coords, st \in StyleOptions }

\* The optional fields of struct Text.
TextOptionals ==
    { "font", "smoothing", "double_width", "double_height", "width", "height",
      "underline", "emph", "color", "lang", "align" }

\* Values for the fields of a Text: those of test_text, others, and others
\* with a language outside the named variants.
TextSamples ==
    { [ text |-> <<"test">>, font |-> "FontA", smoothing |-> TRUE,
        double_width |-> TRUE, double_height |-> TRUE, width |-> 20, height |-> 20,
        underline |-> TRUE, emph |-> TRUE, color |-> TRUE, lang |-> "En",
        align |-> "Center" ],
      [ text |-> <<"a ", "<", " b ", "&", " {1", "\n">>, font |-> "FontE",
        smoothing |-> FALSE, double_width |-> FALSE, double_height |-> TRUE,
        width |-> 1, height |-> 8, underline |-> FALSE, emph |-> FALSE,
        color |-> FALSE, lang |-> "ZhTw", align |-> "Right" ],
      [ text |-> <<>>, font |-> "FontB", smoothing |-> TRUE,
        double_width |-> FALSE, double_height |-> FALSE, width |-> 8, height |-> 1,
        underline |-> FALSE, emph |-> TRUE, color |-> FALSE, lang |-> "Other(tlh)",
        align |-> "Left" ] }

\* The Text with the fields of present set to the sample's values and the
\* other optional fields None.
TextWith(present, v) ==
    LET Opt(field) == IF field \in present THEN Some(v[field]) ELSE None
    IN  [ kind |-> "text", text |-> v.text, font |-> Opt("font"),
          smoothing |-> Opt("smoothing"), double_width |-> Opt("double_width"),
          double_height |-> Opt("double_height"), width |-> Opt("width"),
          height |-> Opt("height"), underline |-> Opt("underline"),
          emph |-> Opt("emph"), color |-> Opt("color"), lang |-> Opt("lang"),
          align |-> Opt("align") ]

TextCommands ==
    { TextWith(present, v) : present \in SUBSET TextOptionals, v \in TextSamples }

\* Every variant of every catalog enumeration.
CatalogValues ==
    UNION { { [kind |-> "catalog", enum |-> e, variant |-> v] :
                v \in Variants(TableOf(e)) \cup DataVariants(e) } :
            e \in CatalogNames }

\* Tokens that are no variant's rename: another case, a prefix, a language
\* tag, a number, and the lowercase of an uppercase rename.
UnknownTokens == {"LEFT", "lef", "tlh", "50", "ean8"}

\* A token met in attribute position where a catalog value is expected.
TokenInputs ==
    { [kind |-> "token", enum |-> e, token |-> t] :
        e \in CatalogNames, t \in UnknownTokens }

\* to_string of a command, or of a catalog value in attribute position.
Serialize(c) ==
    IF c.kind = "catalog" THEN SerializeValue(TableOf(c.enum), c.variant)
    ELSE IF c.kind = "line" THEN RenderLine(c)
    ELSE Render(c)

InitRender ==
    /\ command \in RectangleCommands \cup HlineCommands \cup TextCommands
                    \cup LineCommands \cup CatalogValues \cup TokenInputs
    /\ rendered = NotRendered
    /\ parsed = NotParsed
    /\ status = Zero32
    /\ decoded = NotDecoded
    /\ flips = 0
    /\ args = CHOOSE c \in Connections : c.timeout = 10000
    /\ conn = New(args.timeout, args.dev_id, args.endpoint)
    /\ builders = [s \in AllSlots |-> NoBuilder]
    /\ calls = [s \in AllSlots |-> Idle(0)]
    /\ requests = <<>>
    /\ last = [s \in AllSlots |-> Nothing]

\* quick_xml::se::to_string(&command).
SeToString ==
    /\ command.kind # "token"
    /\ rendered = NotRendered
    /\ rendered' = Serialize(command)
    /\ UNCHANGED <<command, parsed, statusVars, buildVars>>

\* The token written for a catalog value is deserialized.
FromStr ==
    /\ command.kind = "catalog"
    /\ rendered # NotRendered /\ rendered # SerializeError
    /\ parsed = NotParsed
    /\ parsed' = FromToken(TableOf(command.enum), rendered[1])
    /\ UNCHANGED <<command, rendered, statusVars, buildVars>>

\* A token that came from elsewhere is deserialized as a catalog value.
FromStrToken ==
    /\ command.kind = "token"
    /\ parsed = NotParsed
    /\ parsed' = FromToken(TableOf(command.enum), command.token)
    /\ UNCHANGED <<command, rendered, statusVars, buildVars>>

NextRender == SeToString \/ FromStr \/ FromStrToken

SpecRender == InitRender /\ [][NextRender]_vars

(***************************************************************************)
(* The status decoder.                                                     *)
(***************************************************************************)
\* The table of named masks, in table order, as (name, mask).
FlagTable ==
    << <<"no_response", U32(0, 1)>>, <<"success", U32(0, 2)>>,
       <<"drawer_kick_out_connector", U32(0, 4)>>,
       <<"battery_offline_status", U32(0, 4)>>, <<"offline", U32(0, 8)>>,
       <<"cover_open", U32(0, 32)>>, <<"paper_feed_operation", U32(0, 64)>>,
       <<"waiting_online", U32(0, 256)>>,
       <<"paper_feed_switch_pressed", U32(0, 512)>>,
       <<"mechanical_error", U32(0, 1024)>>, <<"autocutter_error", U32(0, 2048)>>,
       <<"unrecoverable", U32(0, 8192)>>, <<"recoverable", U32(0, 16384)>>,
       <<"no_paper_roll_near_end_sensor", U32(2, 0)>>,
       <<"no_paper_in_roll_paper_end_sensor", U32(8, 0)>>,
       <<"buzzer_on", U32(256, 0)>>, <<"label_wait_removal", U32(256, 0)>>,
       <<"no_paper_in_peel_sensor", U32(16384, 0)>>,
       <<"spooler_stopped", U32(32768, 0)>> >>

\* Whether the table entry i is set in the word.
TableSet(word, i) == And32(word, FlagTable[i][2]) # Zero32

\* The names of the table entries set in the word, in table order.
TableNames(word) ==
    LET Named(i) == FlagTable[i][1]
        Chosen(i) == TableSet(word, i)
        idx == SelectSeq([i \in DOMAIN FlagTable |-> i], Chosen)
    IN  [k \in DOMAIN idx |-> Named(idx[k])]

\* Whether bit i of a word belongs to some mask of the table.
InTable(i) == \E k \in DOMAIN FlagTable : And32(Bit32(i), FlagTable[k][2]) # Zero32

\* C1: decoding a status word sets exactly the flags whose table mask has a
\* non-zero AND with the word, lists the set names in table order, and a bit
\* outside the table changes no flag.
C1_DecodeFollowsTable ==
    decoded.done =>
        /\ DOMAIN decoded.flags = {FlagTable[i][1] : i \in DOMAIN FlagTable}
        /\ \A i \in DOMAIN FlagTable : decoded.flags[FlagTable[i][1]] = TableSet(status, i)
        /\ decoded.names = TableNames(status)
        /\ \A i \in 0..31 :
              ~InTable(i) => PrinterStatusFrom(FlipBit(status, i)) = decoded.flags

\* Every bit set: all nineteen names are listed, the shared ones twice over.
C1_Witness ==
    /\ decoded.done
    /\ status = U32(65535, 65535)
    /\ Len(decoded.names) = 19
    /\ \E i \in 0..31 : ~InTable(i)

\* C2: the names that share a mask are decoded alike and both are listed:
\* drawer_kick_out_connector with battery_offline_status, and buzzer_on with
\* label_wait_removal.
C2_SharedMasksTogether ==
    LET Listed(name) == \E k \in DOMAIN decoded.names : decoded.names[k] = name
    IN  decoded.done =>
        /\ decoded.flags.drawer_kick_out_connector = decoded.flags.battery_offline_status
        /\ decoded.flags.buzzer_on = decoded.flags.label_wait_removal
        /\ Listed("drawer_kick_out_connector") = Listed("battery_offline_status")
        /\ Listed("buzzer_on") = Listed("label_wait_removal")
        /\ Listed("drawer_kick_out_connector") = decoded.flags.drawer_kick_out_connector
        /\ Listed("buzzer_on") = decoded.flags.buzzer_on

\* A word with only the two shared bits set lists four names.
C2_Witness ==
    /\ decoded.done
    /\ status = U32(256, 4)
    /\ decoded.names = << "drawer_kick_out_connector", "battery_offline_status",
                          "buzzer_on", "label_wait_removal" >>

\* C3: 251658262 decodes to success, drawer_kick_out_connector,
\* battery_offline_status, buzzer_on and label_wait_removal, and to no other
\* flag.
C3_ExampleWord ==
    (decoded.done /\ status = ToU32(251658262)) =>
        /\ decoded.flags =
              [PrinterStatusDefault EXCEPT
                 !.success = TRUE, !.drawer_kick_out_connector = TRUE,
                 !.battery_offline_status = TRUE, !.buzzer_on = TRUE,
                 !.label_wait_removal = TRUE]
        /\ decoded.names = << "success", "drawer_kick_out_connector",
                              "battery_offline_status", "buzzer_on",
                              "label_wait_removal" >>

C3_Witness == decoded.done /\ status = ToU32(251658262) /\ flips = 0

\* C4 as stated: 0x0F020004 decodes to a set holding success, both names of
\* bit 0x4 and both names of bit 0x01000000.
C4_AsStated ==
    (decoded.done /\ status = U32(3842, 4)) =>
        /\ decoded.flags.success
        /\ decoded.flags.drawer_kick_out_connector /\ decoded.flags.battery_offline_status
        /\ decoded.flags.buzzer_on /\ decoded.flags.label_wait_removal

\* C4, amended: 0x0F020004 decodes to a set holding both names of bit 0x4 and
\* both names of bit 0x01000000, and not success, whose bit 0x2 is clear in
\* that word.
C4_SharedBitsWithoutSuccess ==
    (decoded.done /\ status = U32(3842, 4)) =>
        /\ ~decoded.flags.success
        /\ decoded.flags.drawer_kick_out_connector /\ decoded.flags.battery_offline_status
        /\ decoded.flags.buzzer_on /\ decoded.flags.label_wait_removal

C4_Witness ==
    /\ decoded.done /\ status = U32(3842, 4) /\ flips = 0
    /\ decoded.flags.no_paper_roll_near_end_sensor

(***************************************************************************)
(* Modes, appends and dispatch.                                            *)
(***************************************************************************)
\* The command kinds the protocol allows in each mode.
LegalKinds(mode) ==
    IF mode = "Normal"
    THEN {"cut", "hline", "text", "feed", "barcode", "symbol", "image"}
    ELSE {"area", "rectangle", "line", "direction", "position",
          "text", "feed", "barcode", "symbol", "image"}

\* Whether every fragment of a buffer is of a kind legal in the mode.
AllLegal(mode, build) ==
    \A k \in DOMAIN build : FragmentKind(build[k]) \in LegalKinds(mode)

\* The requests a builder sent.
RequestsOf(s) == {i \in DOMAIN requests : requests[i].slot = s}

\* C5 as stated: an append of a command outside the document's mode fails
\* with the error IllegalForMode, and buffers and dispatches hold only
\* commands legal for the mode.
C5_AsStated ==
    \A s \in AllSlots :
        /\ (last[s].op = "add" /\ last[s].value.tag = "NotCompiled")
               => last[s].value = Err("IllegalForMode")
        /\ AllLegal(ModeOf(builders[s].type), builders[s].build)

\* C5, amended: an append of a command outside the document's mode is
\* refused before it runs (add takes only the types that implement the
\* mode's marker trait, and returns no error value for the others: its one
\* error is the serializer's), so every buffer and every dispatched document
\* holds only commands legal for the mode.
C5_OnlyLegalKinds ==
    /\ \A s \in AllSlots :
          /\ AllLegal(ModeOf(builders[s].type), builders[s].build)
          /\ last[s].op = "add" => last[s].value \in {Ok, Err("DeError"), NotCompiled}
    /\ \A i \in DOMAIN requests :
          AllLegal(ModeOf(builders[requests[i].slot].type), requests[i].doc)

\* A Normal-mode document with a command in it, after a refused append.
C5_Witness ==
    \E s \in AllSlots :
        /\ builders[s].type = "NormalBuilder"
        /\ builders[s].build # <<>>
        /\ last[s].op = "add" /\ last[s].value = NotCompiled

\* C6 as stated: a builder accepts every command kind legal for its mode.
C6_AsStated ==
    \A s \in AllSlots :
        builders[s].type # "none" =>
            \A kind \in LegalKinds(ModeOf(builders[s].type)) :
                Accepts(builders[s].type, kind)

\* C7 as stated: a reply without success makes print fail with ResponseError
\* holding the reply's Response, and a reply with success makes it return Ok
\* holding the Response.
C7_AsStated ==
    \A s \in AllSlots :
        (last[s].op = "print" /\ last[s].reply.kind = "reply") =>
            IF last[s].reply.response.success
            THEN last[s].value.tag = "Ok" /\ last[s].value.status = last[s].reply.response
            ELSE last[s].value = ResponseError(last[s].reply.response)

\* C7, amended: a reply without success makes print fail with ResponseError
\* holding the reply's Response, its code, status and battery unchanged; a
\* reply with success makes it return Ok(()), which holds no Response.
C7_ResponseErrorOrUnit ==
    \A s \in AllSlots :
        (last[s].op = "print" /\ last[s].reply.kind = "reply") =>
            IF last[s].reply.response.success
            THEN last[s].value = Ok /\ last[s].value.status = NoResponse
            ELSE /\ last[s].value.tag = "Err" /\ last[s].value.error = "ResponseError"
                 /\ last[s].value.status.code = last[s].reply.response.code
                 /\ last[s].value.status.status = last[s].reply.response.status
                 /\ last[s].value.status.battery = last[s].reply.response.battery
                 /\ last[s].value.status = last[s].reply.response

\* A print that read a reply without success.
C7_Witness ==
    \E s \in AllSlots :
        /\ last[s].op = "print" /\ last[s].reply.kind = "reply"
        /\ ~last[s].reply.response.success
        /\ last[s].value.status.code = "EPTR_COVER_OPEN"
        /\ last[s].value.status.battery = 12337

\* C8: every print call performs exactly one POST, whatever its outcome: the
\* requests of a builder are one for each of its print calls.
C8_OnePostPerPrint ==
    \A s \in AllSlots :
        /\ Cardinality(RequestsOf(s)) = calls[s].n
        /\ \A k \in 1..calls[s].n :
              Cardinality({i \in RequestsOf(s) : requests[i].call = k}) = 1

\* Two prints done, the second ended by a transport failure.
C8_Witness ==
    \E s \in AllSlots :
        /\ calls[s] = Idle(2)
        /\ last[s].op = "print" /\ last[s].reply.kind = "transport_failure"
        /\ Len(requests) = 2

\* C9: every POST carries devid and timeout with the values the connection
\* was created with, and the Content-Type and If-Modified-Since headers.
C9_QueryAndHeaders ==
    \A i \in DOMAIN requests :
        LET r == requests[i].request
            Has(pairs, name, value) ==
                \E k \in DOMAIN pairs : pairs[k] = <<name, value>>
            Count(pairs, name) ==
                Cardinality({k \in DOMAIN pairs : pairs[k][1] = name})
        IN  /\ r.method = "POST"
            /\ Has(r.query, "devid", args.dev_id) /\ Count(r.query, "devid") = 1
            /\ Has(r.query, "timeout", ToString(args.timeout))
            /\ Count(r.query, "timeout") = 1
            /\ Has(r.headers, "content-type", "text/xml; charset=utf-8")
            /\ Has(r.headers, "if-modified-since", "Thu, 01 Jan 1970 00:00:00 GMT")

\* A POST for a connection created with timeout 1000 and device printer_2.
C9_Witness ==
    /\ args.timeout = 1000 /\ args.dev_id = "printer_2"
    /\ Len(requests) >= 1
    /\ requests[1].request.query = << <<"devid", "printer_2">>, <<"timeout", "1000">> >>

\* C10 as stated: a document is sent once: a command that a print has sent
\* is not sent again by a later print on the same builder.
C10_AsStated ==
    \A i, j \in DOMAIN requests :
        (i < j /\ requests[i].slot = requests[j].slot) =>
            \A k \in DOMAIN requests[i].doc :
                ~(k \in DOMAIN requests[j].doc /\ requests[j].doc[k] = requests[i].doc[k])

(***************************************************************************)
(* The buffer and the wire body.                                           *)
(***************************************************************************)
\* Whether the string f occurs in the string s at position p.
OccursAt(s, f, p) ==
    /\ p >= 1 /\ p + Len(f) - 1 <= Len(s)
    /\ \A k \in 1..Len(f) : s[p + k - 1] = f[k]

RECURSIVE InOrderFrom(_, _, _, _)
\* Whether the fragments doc[k], doc[k+1], ... occur in s one after another,
\* without overlap, at or after the position from.
InOrderFrom(s, doc, k, from) ==
    IF k > Len(doc) THEN TRUE
    ELSE \E p \in from..Len(s) :
            /\ OccursAt(s, doc[k], p)
            /\ InOrderFrom(s, doc, k + 1, p + Len(doc[k]))

\* The number of elements named tag that open in the string s.
Opens(s, tag) ==
    Cardinality({p \in 1..(Len(s) - 1) : s[p] = "<" /\ s[p + 1] = tag})

\* C11: a document starts empty and is ordered and append-only.  A builder
\* is created with an empty buffer; a step leaves a buffer as it was, unless
\* it is an add that returns Ok, which appends the rendered fragment of its
\* item after the earlier ones and changes none of them; and the body of
\* every POST lists the fragments of the buffer it was made from in buffer
\* order.
C11_OrderedAppendOnly ==
    /\ [](\A i \in DOMAIN requests :
            InOrderFrom(requests[i].request.body, requests[i].doc, 1, 1))
    /\ [][\A s \in AllSlots :
            LET SuccessfulAdd ==
                    /\ last'[s] # last[s] \/ builders'[s] # builders[s]
                    /\ last'[s].op = "add" /\ last'[s].value = Ok
            IN  IF builders[s].type = "none"
                THEN builders'[s].build = <<>>
                ELSE IF SuccessfulAdd
                THEN \E item \in Items :
                        /\ last'[s].kind = item.kind
                        /\ Render(item) # SerializeError
                        /\ builders'[s].build = builders[s].build \o <<Render(item)>>
                ELSE builders'[s].build = builders[s].build]_vars
    /\ [][requests' # requests =>
            \E e \in {requests'[Len(requests')]} :
                /\ requests' = Append(requests, e)
                /\ e.doc = builders[e.slot].build]_vars

\* A POST made from a buffer of two different fragments.
C11_Witness ==
    \E i \in DOMAIN requests :
        /\ Len(requests[i].doc) = 2
        /\ requests[i].doc[1] = Render(HlineDouble)
        /\ requests[i].doc[2] = Render(CutFeed)
        /\ builders[requests[i].slot].build = requests[i].doc

\* C12 as stated: the body of a POST holds the fragments of the buffer one
\* directly after the other, with nothing between two consecutive fragments.
C12_AsStated ==
    \A i \in DOMAIN requests :
        \E p \in 1..Len(requests[i].request.body) :
            OccursAt(requests[i].request.body, Flatten(requests[i].doc), p)

\* The opening of the envelope, with both namespaces, and its closing.
EnvelopeHead ==
    << "<", "s:Envelope", " ", "xmlns:s", "=", "\"",
       "http://schemas.xmlsoap.org/soap/envelope/", "\"", ">",
       "<", "s:Body", " ", "xmlns", "=", "\"",
       "http://www.epson-pos.com/schemas/2011/03/epos-print", "\"", ">" >>

EnvelopeTail == << "<", "/", "s:Body", ">", "<", "/", "s:Envelope", ">" >>

\* Whether the string s ends with the string f.
EndsWith(s, f) == OccursAt(s, f, Len(s) - Len(f) + 1)

\* C13: the body of every POST is one s:Envelope with the SOAP namespace
\* holding one s:Body with the ePOS-Print namespace holding one epos-print;
\* for a Page-mode builder the fragments lie inside one page element inside
\* epos-print, for a Normal-mode builder they lie directly inside epos-print
\* and there is no page element.
C13_ModeTagMatchesMode ==
    \A i \in DOMAIN requests :
        LET body  == requests[i].request.body
            doc   == requests[i].doc
            mode  == ModeOf(builders[requests[i].slot].type)
            inner == SubSeq(body, Len(EnvelopeHead) + 1, Len(body) - Len(EnvelopeTail))
            first == doc[1]
            final == doc[Len(doc)]
        IN  /\ OccursAt(body, EnvelopeHead, 1) /\ EndsWith(body, EnvelopeTail)
            /\ Opens(body, "s:Envelope") = 1 /\ Opens(body, "s:Body") = 1
            /\ Opens(body, "epos-print") = 1
            /\ OccursAt(inner, <<"<", "epos-print">>, 1)
            /\ IF mode = "Page"
               THEN /\ Opens(body, "page") = 1
                    /\ OccursAt(inner, <<"<", "epos-print", ">", "<", "page">>, 1)
                    /\ doc # <<>> =>
                          /\ OccursAt(inner, <<"<", "page", ">">> \o first, 4)
                          /\ EndsWith(inner, final \o <<"<", "/", "page", ">",
                                                       "<", "/", "epos-print", ">">>)
               ELSE /\ Opens(body, "page") = 0
                    /\ doc # <<>> =>
                          /\ OccursAt(inner, <<"<", "epos-print", ">">> \o first, 1)
                          /\ EndsWith(inner, final \o <<"<", "/", "epos-print", ">">>)

\* A POST of a Page-mode builder that holds an area and a text.
C13_Witness ==
    \E i \in DOMAIN requests :
        /\ builders[requests[i].slot].type = "PageBuilder"
        /\ requests[i].doc = <<Render(AreaFull), Render(TextMarkup)>>
        /\ Opens(requests[i].request.body, "page") = 1

\* Whether an entity reference occurs in the string s.
HasEntity(s) == \E p \in DOMAIN s : EntityAt(s, p)

\* C14: unescape runs once for a POST, on the whole serialized envelope: the
\* body sent is the serialized envelope unescaped once (not the serialized
\* envelope itself, and not unescaped a second time), and add stores every
\* fragment as the serializer wrote it.
C14_UnescapedOnce ==
    /\ \A s \in AllSlots : \A k \in DOMAIN builders[s].build :
          \E item \in Items :
              /\ item.kind = FragmentKind(builders[s].build[k])
              /\ Accepts(builders[s].type, item.kind)
              /\ builders[s].build[k] = Render(item)
    /\ \A i \in DOMAIN requests :
          LET body   == requests[i].request.body
              doc    == requests[i].doc
              joined == Join(doc, <<"\n">>)
              serialized ==
                  SerializeEnvelope(
                      IF ModeOf(builders[requests[i].slot].type) = "Page"
                      THEN Page(joined) ELSE NoPage(joined))
          IN  /\ body = Unescape(serialized)
              /\ doc # <<>> => body # serialized
              /\ \A k \in DOMAIN doc : HasEntity(doc[k]) => HasEntity(body)

\* A POST of a Page-mode builder whose text payload holds markup characters:
\* the body still holds entities after the one unescape.
C14_Witness ==
    \E i \in DOMAIN requests :
        /\ builders[requests[i].slot].type = "PageBuilder"
        /\ \E k \in DOMAIN requests[i].doc : requests[i].doc[k] = Render(TextMarkup)
        /\ HasEntity(requests[i].request.body)
        /\ Unescape(requests[i].request.body) # requests[i].request.body

\* The number of positions of the string s that hold the atom a.
Count(s, a) == Cardinality({p \in DOMAIN s : s[p] = a})

\* The command that a fragment was rendered from.
ItemOf(fragment) ==
    CHOOSE item \in Items :
        /\ item.kind = FragmentKind(fragment)
        /\ Render(item) = fragment

\* The payload of the command a fragment was rendered from.
PayloadOf(fragment) ==
    IF FragmentKind(fragment) \in {"text", "barcode", "symbol", "image"}
    THEN ItemOf(fragment).text ELSE <<>>

RECURSIVE CountInPayloads(_, _, _)
\* How often the atom a occurs in the payloads of doc[k], doc[k+1], ...
CountInPayloads(doc, k, a) ==
    IF k > Len(doc) THEN 0
    ELSE Count(PayloadOf(doc[k]), a) + CountInPayloads(doc, k + 1, a)

\* The runs of payload characters that hold a {-escape.
BraceAtoms == {" {1", "{A"}

\* C15: a {-escape of a text or barcode payload is in the body of the POST as
\* it was given, once for each time it occurs in the payloads.
C15_BraceSequencesVerbatim ==
    \A i \in DOMAIN requests : \A a \in BraceAtoms :
        Count(requests[i].request.body, a) = CountInPayloads(requests[i].doc, 1, a)

\* A POST that carries the barcode with {A and the text with {1.
C15_Witness ==
    \E i \in DOMAIN requests :
        /\ Count(requests[i].request.body, "{A") = 1
        /\ Count(requests[i].request.body, " {1") = 1
        /\ CountInPayloads(requests[i].doc, 1, "{A") = 1

\* The element names of the envelope and of the commands.
TagNames ==
    { "s:Envelope", "s:Body", "epos-print", "page", "text", "feed", "barcode",
      "symbol", "image", "area", "rectangle", "cut", "hline" }

\* The number of references to the entity name in the string s.
CountEntity(s, name) ==
    Cardinality({p \in DOMAIN s : EntityAt(s, p) /\ s[p + 1] = name})

\* C16: in the body of a POST every < opens or closes an element of the
\* envelope or of a command and every & starts an entity; each < and & of a
\* payload is there as &lt; and &amp;, and each command's element is opened
\* by a literal <.
C16_PayloadEscapedMarkupLiteral ==
    \A i \in DOMAIN requests :
        LET body  == requests[i].request.body
            doc   == requests[i].doc
            marks == {p \in DOMAIN body : body[p] = "<"}
            refs  == {p \in DOMAIN body : body[p] = "&"}
        IN  /\ \A p \in marks : p < Len(body) /\ body[p + 1] \in TagNames \cup {"/"}
            /\ \A p \in refs : EntityAt(body, p)
            /\ Cardinality({p \in refs : body[p + 1] = "lt"}) = CountInPayloads(doc, 1, "<")
            /\ Cardinality({p \in refs : body[p + 1] = "amp"}) = CountInPayloads(doc, 1, "&")
            /\ \A tag \in TagNames \ {"s:Envelope", "s:Body", "epos-print", "page"} :
                  Cardinality({p \in marks : body[p + 1] = tag}) =
                      Cardinality({k \in DOMAIN doc : FragmentKind(doc[k]) = tag})

\* A POST of a Normal-mode builder that carries the text whose payload holds
\* < and &.
C16_Witness ==
    \E i \in DOMAIN requests :
        /\ builders[requests[i].slot].type = "NormalBuilder"
        /\ CountInPayloads(requests[i].doc, 1, "<") = 1
        /\ CountInPayloads(requests[i].doc, 1, "&") = 1
        /\ CountEntity(requests[i].request.body, "lt") = 1
        /\ OccursAt(requests[i].request.body,
                    <<"I HATE ", "&", "lt", ";", "XML", "&", "gt", ";", " ",
                      "&", "amp", ";", " {1", "\n", "<", "/", "text", ">">>,
                    CHOOSE p \in DOMAIN requests[i].request.body :
                        requests[i].request.body[p] = "I HATE ")

(***************************************************************************)
(* Rendering of commands and catalog values.                               *)
(***************************************************************************)
\* An attribute as it stands on the wire: a space, name="value".
WireAttr(name, value) == <<" ", name, "=", "\"", value, "\"">>

\* The wire tokens of the line styles.
StyleWire(style) ==
    CASE style = "Thin"         -> "thin"
      [] style = "Medium"       -> "medium"
      [] style = "Thick"        -> "thick"
      [] style = "ThinDouble"   -> "thin_double"
      [] style = "MediumDouble" -> "medium_double"
      [] style = "ThickDouble"  -> "thick_double"

\* The style attribute of a line command: none when the style is absent.
WireStyle(opt) == IF opt = <<>> THEN <<>> ELSE WireAttr("style", StyleWire(opt[1]))

\* C17: a Rectangle renders to a self-closing rectangle element with the
\* attributes x1, y1, x2, y2 and style in that order, the style as its wire
\* token and left out when absent; Rectangle{0, 1, 2, 3, Medium} renders to
\* <rectangle x1="0" y1="1" x2="2" y2="3" style="medium"/>.
C17_RectangleRendering ==
    (command.kind = "rectangle" /\ rendered # NotRendered) =>
        /\ rendered =
              <<"<", "rectangle">>
              \o WireAttr("x1", ToString(command.x1))
              \o WireAttr("y1", ToString(command.y1))
              \o WireAttr("x2", ToString(command.x2))
              \o WireAttr("y2", ToString(command.y2))
              \o WireStyle(command.style) \o <<"/", ">">>
        /\ command.style = <<>> => Count(rendered, "style") = 0
        /\ (/\ command.x1 = 0 /\ command.y1 = 1 /\ command.x2 = 2 /\ command.y2 = 3
            /\ command.style = <<"Medium">>) =>
              rendered =
                  << "<", "rectangle", " ", "x1", "=", "\"", "0", "\"",
                     " ", "y1", "=", "\"", "1", "\"", " ", "x2", "=", "\"", "2", "\"",
                     " ", "y2", "=", "\"", "3", "\"",
                     " ", "style", "=", "\"", "medium", "\"", "/", ">" >>

\* Rectangle{x1: 0, y1: 1, x2: 2, y2: 3, style: Medium} has been rendered.
C17_Witness ==
    /\ command = [kind |-> "rectangle", x1 |-> 0, y1 |-> 1, x2 |-> 2, y2 |-> 3,
                  style |-> <<"Medium">>]
    /\ Len(rendered) = 34 /\ rendered[31] = "medium"

\* C18: an Hline renders to a self-closing hline element with the attributes
\* x1, x2 and style in that order, the style as its wire token and left out
\* when absent; Hline{1, 2, ThinDouble} renders to
\* <hline x1="1" x2="2" style="thin_double"/> and Hline{1, 2, Medium} to
\* <hline x1="1" x2="2" style="medium"/>.
C18_HlineRendering ==
    (command.kind = "hline" /\ rendered # NotRendered) =>
        /\ rendered =
              <<"<", "hline">>
              \o WireAttr("x1", ToString(command.x1))
              \o WireAttr("x2", ToString(command.x2))
              \o WireStyle(command.style) \o <<"/", ">">>
        /\ command.style = <<>> => Count(rendered, "style") = 0
        /\ (command.x1 = 1 /\ command.x2 = 2 /\ command.style = <<"ThinDouble">>) =>
              rendered =
                  << "<", "hline", " ", "x1", "=", "\"", "1", "\"",
                     " ", "x2", "=", "\"", "2", "\"",
                     " ", "style", "=", "\"", "thin_double", "\"", "/", ">" >>
        /\ (command.x1 = 1 /\ command.x2 = 2 /\ command.style = <<"Medium">>) =>
              rendered =
                  << "<", "hline", " ", "x1", "=", "\"", "1", "\"",
                     " ", "x2", "=", "\"", "2", "\"",
                     " ", "style", "=", "\"", "medium", "\"", "/", ">" >>

\* Hline{x1: 1, x2: 2, style: ThinDouble} has been rendered.
C18_Witness ==
    /\ command = [kind |-> "hline", x1 |-> 1, x2 |-> 2, style |-> <<"ThinDouble">>]
    /\ Len(rendered) = 22 /\ rendered[19] = "thin_double"

\* The attributes of a text element in the order of the claim, each with the
\* field of Text that it carries.
TextAttrOrder ==
    << <<"font", "font">>, <<"smoothing", "smoothing">>, <<"dw", "double_width">>,
       <<"dh", "double_height">>, <<"width", "width">>, <<"height", "height">>,
       <<"ul", "underline">>, <<"em", "emph">>, <<"color", "color">>,
       <<"lang", "lang">>, <<"align", "align">> >>

\* The token of a present field of a Text: true/false, the decimal number,
\* or the catalog token (for a language outside the catalog, its own tag).
WireValue(field, v) ==
    CASE field \in {"width", "height"} -> ToString(v)
      [] field = "font"  -> Token(FontTokens, v)
      [] field = "align" -> Token(AlignTokens, v)
      [] field = "lang"  -> IF v \in Variants(LangTokens) THEN Token(LangTokens, v) ELSE "tlh"
      [] OTHER -> IF v THEN "true" ELSE "false"

\* The text element the claim describes for a Text.
WireText(c) ==
    <<"<", "text">>
    \o Flatten([i \in DOMAIN TextAttrOrder |->
            LET opt == c[TextAttrOrder[i][2]]
            IN  IF opt = <<>> THEN <<>>
                ELSE WireAttr(TextAttrOrder[i][1], WireValue(TextAttrOrder[i][2], opt[1]))])
    \o (IF c.text = <<>> THEN <<"/", ">">>
        ELSE <<">">> \o Escape(c.text, FALSE) \o <<"<", "/", "text", ">">>)

\* C19 as stated: every Text renders to a text element that has an attribute
\* for each present optional field and for no other, in the order font,
\* smoothing, dw, dh, width, height, ul, em, color, lang, align, booleans as
\* true/false and numbers in decimal, with the text as its content.
C19_AsStated ==
    (command.kind = "text" /\ rendered # NotRendered) => rendered = WireText(command)

\* C20 as stated: every variant of a catalog enumeration is written as one
\* token, no other variant of the enumeration is written as the same token,
\* and reading the token back gives the variant.
C20_AsStated ==
    (command.kind = "catalog" /\ rendered # NotRendered) =>
        /\ rendered # SerializeError /\ Len(rendered) = 1
        /\ \A other \in CatalogValues :
              (other.enum = command.enum /\ other.variant # command.variant) =>
                  Serialize(other) # rendered
        /\ parsed # NotParsed => parsed = command.variant

\* C21 as stated: a token that is no variant's rename decodes, for Lang and
\* ErrorCorrectionLevel, to the variant that carries data (Lang::Other,
\* ErrorCorrectionLevel::Int), and for every other enumeration to the error
\* UnknownCatalogValue.
C21_AsStated ==
    (/\ command.kind = "token" /\ parsed # NotParsed
     /\ \A j \in DOMAIN TableOf(command.enum) :
            TableOf(command.enum)[j][2] # command.token) =>
        IF command.enum \in {"Lang", "ErrorCorrectionLevel"}
        THEN parsed \in {"Other(tlh)", "Other(LEFT)", "Other(lef)", "Other(50)",
                         "Other(ean8)", "Int(50)"}
        ELSE parsed = "UnknownCatalogValue"

\* The documented numeric ranges of a command.
InRange(item) ==
    /\ (item.kind = "text" /\ item.width # None) => item.width[1] \in 1..8
    /\ (item.kind = "text" /\ item.height # None) => item.height[1] \in 1..8
    /\ (item.kind = "barcode" /\ item.width # None) => item.width[1] \in 2..6

\* C22 as stated: every fragment of a buffer is the rendering of a command
\* within the documented ranges (text width and height in 1..8, barcode
\* width in 2..6), and an add of a command outside them is answered with
\* InvalidPayload.
C22_AsStated ==
    /\ \A i \in 1..Len(builders["a"].build) :
        \A item \in RangeItems :
            Render(item) = builders["a"].build[i] => InRange(item)
    /\ (last["a"].op = "add" /\ last["a"].value = Ok) =>
        \E item \in RangeItems :
            /\ InRange(item)
            /\ Len(builders["a"].build) > 0
            /\ Render(item) = builders["a"].build[Len(builders["a"].build)]

\* The request print posts for a builder with the given buffer.
RequestOf(b, doc) ==
    BuildRequest(FinalBody([b EXCEPT !.build = doc]), b.dev_id, b.timeout, b.endpoint)

\* A step touches slot s: its builder, its call state, its last answer or a
\* request of its own.
Touches(s) ==
    \/ builders'[s] # builders[s]
    \/ calls'[s] # calls[s]
    \/ last'[s] # last[s]
    \/ /\ Len(requests') > Len(requests)
       /\ requests'[Len(requests')].slot = s

\* C23: two builders share no mutable state. A call on one builder leaves
\* the other's buffer, device id, timeout and endpoint (and its call state)
\* as they were, the Builder both were made from is never changed, and the
\* request a dispatch posts is the one built from the buffer and the fields
\* of its own builder.
C23_NoSharedState ==
    [][ /\ conn' = conn
        /\ \A s \in AllSlots : \A t \in AllSlots \ {s} :
              Touches(s) =>
                  /\ builders'[t] = builders[t]
                  /\ calls'[t] = calls[t]
                  /\ last'[t] = last[t]
        /\ requests' # requests =>
              LET e == requests'[Len(requests')]
              IN  /\ requests' = Append(requests, e)
                  /\ e.doc = builders[e.slot].build
                  /\ e.request = RequestOf(builders[e.slot], builders[e.slot].build) ]_vars

C23_Witness ==
    /\ Len(requests) = 2
    /\ requests[1].slot # requests[2].slot
    /\ requests[1].doc # requests[2].doc
    /\ Len(requests[1].doc) > 0
    /\ builders["a"].build # builders["b"].build
    /\ builders["a"].type = "PageBuilder"
    /\ builders["b"].type = "NormalBuilder"

\* C24: at most one exchange is outstanding per document. While a print on
\* a builder awaits its reply, no step posts another request for that
\* builder and no step changes its buffer; the request in flight is the one
\* its latest print posted, made from the buffer as it still is.
C24_OneExchangePerDocument ==
    /\ [][ \A s \in AllSlots :
            calls[s].pc # "idle" =>
                /\ builders'[s] = builders[s]
                /\ RequestsOf(s)' = RequestsOf(s) ]_vars
    /\ [](\A s \in AllSlots :
            calls[s].pc # "idle" =>
                /\ RequestsOf(s) # {}
                /\ \A i \in RequestsOf(s) : requests[i].call <= calls[s].n
                /\ \E i \in RequestsOf(s) :
                    /\ requests[i].call = calls[s].n
                    /\ requests[i].doc = builders[s].build
                    /\ \A j \in RequestsOf(s) : j # i => requests[j].call < calls[s].n)

C24_Witness ==
    /\ calls["a"].pc = "awaiting"
    /\ Len(requests) = 1
    /\ Len(builders["a"].build) = 1
    /\ builders["b"].type # "none"
    /\ calls["b"].pc = "idle"

\* C25: no dispatch error is swallowed. A print returns Ok exactly when a
\* reply was received, parsed as a reply envelope and has success = true; a
\* transport failure is returned as NetworkError, a reply body that does not
\* parse as SerializeError, and a parsed reply without success as an error
\* too. Every request that was posted carries the two headers, so no header
\* failed to build.
C25_NoErrorSwallowed ==
    /\ \A s \in AllSlots :
        last[s].op = "print" =>
            /\ last[s].value = Ok <=>
                (last[s].reply.kind = "reply" /\ last[s].reply.response.success)
            /\ last[s].reply.kind = "transport_failure" =>
                last[s].value = Err("NetworkError")
            /\ last[s].reply.kind = "unparseable" =>
                last[s].value = Err("SerializeError")
            /\ (last[s].reply.kind = "reply" /\ ~last[s].reply.response.success) =>
                last[s].value.tag = "Err"
    /\ \A i \in DOMAIN requests :
        requests[i].request.headers = SendHeaders

C25_Witness ==
    /\ last["a"].op = "print"
    /\ last["a"].reply.kind = "unparseable"
    /\ last["a"].value = Err("SerializeError")
    /\ Len(requests) = 1

\* C26: print never modifies the builder it is called on. A step of a print
\* (its call, which posts the request, and its return with any outcome)
\* leaves the builder's buffer, device id, timeout and endpoint as they
\* were, so a builder that has printed still holds what it posted.
C26_PrintLeavesBuilder ==
    /\ [][ \A s \in AllSlots :
            (calls'[s] # calls[s] \/ (last'[s] # last[s] /\ last'[s].op = "print")) =>
                builders'[s] = builders[s] ]_vars
    /\ [](\A s \in AllSlots :
            (last[s].op = "print" /\ last[s].value # Err("panic")) =>
                \E i \in RequestsOf(s) :
                    /\ requests[i].call = calls[s].n
                    /\ requests[i].doc = builders[s].build)

C26_Witness ==
    /\ last["a"].op = "print"
    /\ last["a"].value = Ok
    /\ calls["a"] = Idle(1)
    /\ Len(builders["a"].build) = 2
    /\ builders["a"].type = "PageBuilder"

\* C27: an add that fails to render its command returns the serializer's
\* error and leaves the builder as it was, buffer included; a step that
\* changes an existing builder is a successful add, which keeps the device
\* id, timeout and endpoint, keeps the fragments it had in their order and
\* appends exactly one.
C27_AddAllOrNothing ==
    [][ \A s \in AllSlots :
          /\ (last'[s] # last[s] /\ last'[s].op = "add" /\ last'[s].value # Ok) =>
                builders'[s] = builders[s]
          /\ (builders[s].type # "none" /\ builders'[s] # builders[s]) =>
                /\ last'[s].op = "add" /\ last'[s].value = Ok
                /\ builders'[s] = [builders[s] EXCEPT !.build = builders'[s].build]
                /\ Len(builders'[s].build) = Len(builders[s].build) + 1
                /\ SubSeq(builders'[s].build, 1, Len(builders[s].build)) = builders[s].build
                /\ \E item \in Items :
                      /\ Accepts(builders[s].type, item.kind)
                      /\ builders'[s].build[Len(builders'[s].build)] = Render(item) ]_vars

C27_Witness ==
    /\ last["a"].op = "add"
    /\ last["a"].value = Err("DeError")
    /\ Len(builders["a"].build) = 1
    /\ builders["a"].type = "NormalBuilder"

\* The lowercase spelling of a token: the tokens of the catalog that hold an
\* uppercase letter, each with its lowercase form; any other token is
\* lowercase already.
Lowercase(token) ==
    CASE token = "EAN8" -> "ean8"
      [] token = "JAN8" -> "jan8"
      [] OTHER          -> token

\* C28 as stated: the token a catalog value is serialized to holds no
\* uppercase letter (it is its own lowercase spelling).
C28_AsStated ==
    (/\ command.kind = "catalog"
     /\ rendered # NotRendered /\ rendered # SerializeError) =>
        rendered[1] = Lowercase(rendered[1])

\* The positions of the attribute names in the start tag of an element.
AttrNameAt(r) ==
    { i \in 2..(Len(r) - 1) :
        /\ r[i - 1] = " " /\ r[i + 1] = "="
        /\ \A j \in 1..i : r[j] # ">" }

\* C29 as stated: a command renders with pairwise distinct attribute names,
\* and a Line renders its coordinates under the names x1, y1, x2, y2 in that
\* order, followed by the style when present.
C29_AsStated ==
    (/\ command.kind \in {"line", "rectangle", "hline", "text"}
     /\ rendered # NotRendered /\ rendered # SerializeError) =>
        /\ \A i \in AttrNameAt(rendered) : \A j \in AttrNameAt(rendered) :
              i # j => rendered[i] # rendered[j]
        /\ command.kind = "line" =>
              rendered =
                  <<"<", "line">>
                  \o WireAttr("x1", ToString(command.x1))
                  \o WireAttr("y1", ToString(command.y1))
                  \o WireAttr("x2", ToString(command.x2))
                  \o WireAttr("y2", ToString(command.y2))
                  \o WireStyle(command.style) \o <<"/", ">">>

\* The crate's PageBuilder in slot a beside a page::PageBuilder in slot b,
\* both made from the same timeout, device id and base URL.
Twins ==
    /\ builders["a"].type = "PageBuilder"
    /\ builders["b"].type = "page::PageBuilder"

\* A step of slot s from the buffer both builders hold is a step the other
\* builder t takes for the same command.
SameStep(s, t) ==
    (builders[s].build = builders[t].build /\ builders'[s] # builders[s]) =>
        \E item \in PairItems :
            /\ Accepts(builders[t].type, item.kind)
            /\ Render(item) # SerializeError
            /\ builders'[s] = [builders[s] EXCEPT
                    !.build = Push(builders[t].build, Render(item))]

\* C30: the two page-mode builders are equivalent. Made from the same
\* timeout, device id and base URL they hold the same three fields, take the
\* same commands, reach the same buffer by the same add from the same
\* buffer, and for the same document post the same request: body, query
\* parameters, headers and endpoint.
C30_PageBuildersEquivalent ==
    /\ [](Twins =>
            /\ builders["a"].timeout = builders["b"].timeout
            /\ builders["a"].dev_id = builders["b"].dev_id
            /\ builders["a"].endpoint = builders["b"].endpoint
            /\ \A item \in PairItems \cup PairRefused :
                  Accepts(builders["a"].type, item.kind)
                      <=> Accepts(builders["b"].type, item.kind)
            /\ builders["a"].build = builders["b"].build =>
                  RequestOf(builders["a"], builders["a"].build)
                      = RequestOf(builders["b"], builders["b"].build)
            /\ \A i \in RequestsOf("a") : \A j \in RequestsOf("b") :
                  requests[i].doc = requests[j].doc =>
                      requests[i].request = requests[j].request)
    /\ [][ Twins => (SameStep("a", "b") /\ SameStep("b", "a")) ]_vars

C30_Witness ==
    /\ Twins
    /\ Len(requests) = 2
    /\ requests[1].slot # requests[2].slot
    /\ requests[1].doc = requests[2].doc
    /\ Len(requests[1].doc) = 1
    /\ Len(builders["a"].build) = 2
    /\ Len(builders["b"].build) = 2

====
